---- MODULE Spec2Model ----
\* A model of the obsidian-mcp-server tools: the section parser, the ETag edit
\* protocol (update / patch / frontmatter), batch writes and the vault file
\* operations.  Text is modelled as a sequence of one-character strings, so that
\* split("\n"), join("\n"), slice, indexOf and the regular expressions of the
\* source are computed, not assumed.
EXTENDS Integers, Sequences, FiniteSets, TLC

VARIABLES
    fs,      \* the files on disk: a function from the full paths that exist to contents
    trash,   \* the vault's .trash folder: trashed name -> content
    now,     \* the clock read by Date.now()
    call,    \* the request being served (tool name and arguments)
    result,  \* the response of the last request
    known,   \* the client's side: per path, the etag of the last response naming it
    pc,      \* where a handler or a scripted client stands
    local    \* the data a handler or a scripted client holds between steps

vars == <<fs, trash, now, call, result, known, pc, local>>

\* ------------------------------------------------------------------ bounds

\* longest document, in lines, handed to the section parser
MaxLines == 4

\* longest patch list of one patchFile request
MaxPatches == 2

\* number of requests the server answers in one run
MaxRequests == 3

\* longest operation list of one batchWrite request
MaxOps == 2

\* the longest list a frontmatter value holds
MaxItems == 2

\* the most segments a requested path has
MaxSegments == 4

\* the most lines the linking note has
MaxTokens == 2

\* ------------------------------------------------------------------ text

NL == "\n"

Min(S) == CHOOSE x \in S : \A y \in S : x <= y

Max2(a, b) == IF a >= b THEN a ELSE b

Min2(a, b) == IF a <= b THEN a ELSE b

\* s.startsWith(p)
StartsWith(s, p) == Len(s) >= Len(p) /\ SubSeq(s, 1, Len(p)) = p

\* s.endsWith(p)
EndsWith(s, p) == Len(s) >= Len(p) /\ SubSeq(s, Len(s) - Len(p) + 1, Len(s)) = p

\* the 1-based positions at which p occurs in s
Occurrences(s, p) == {i \in 1..(Len(s) - Len(p) + 1) : SubSeq(s, i, i + Len(p) - 1) = p}

\* s.indexOf(p), 1-based; 0 when p does not occur (the source's -1)
IndexOf(s, p) == IF Occurrences(s, p) = {} THEN 0 ELSE Min(Occurrences(s, p))

\* s.includes(p)
Includes(s, p) == Occurrences(s, p) # {}

\* content.split("\n")
RECURSIVE SplitLines(_)
SplitLines(s) ==
    IF IndexOf(s, <<NL>>) = 0 THEN <<s>>
    ELSE LET k == IndexOf(s, <<NL>>)
         IN <<SubSeq(s, 1, k - 1)>> \o SplitLines(SubSeq(s, k + 1, Len(s)))

\* lines.join("\n")
RECURSIVE JoinLines(_)
JoinLines(ls) ==
    IF ls = <<>> THEN <<>>
    ELSE IF Len(ls) = 1 THEN ls[1]
    ELSE ls[1] \o <<NL>> \o JoinLines(Tail(ls))

\* lines.slice(from, to) with 0-based from (inclusive) and to (exclusive),
\* both already non-negative
Slice(ls, from, to) == SubSeq(ls, from + 1, Min2(to, Len(ls)))

\* the characters the regular expression class \s accepts
IsWhitespace(c) == c \in {" ", "\t", "\r", "\f"}

\* a value computed once and named, as a const declaration does: Rest is
\* applied to the value of e, not to the expression
Bind(e, Rest(_)) == CHOOSE r \in {Rest(v) : v \in {e}} : TRUE

\* ------------------------------------------------------------------ sections

\* an absent value (null): the empty sequence; a present value v: <<v>>
Null == <<>>

Some(v) == <<v>>

DASHES == <<"-", "-", "-">>

\* the backquote character (a string of the model cannot hold it literally)
BQ == "backquote"

\* IsFenceLine with the tilde alternative of the pattern forgotten
IsFenceLineBackquoteOnly(line) ==
    Len(line) >= 3 /\ \A i \in 1..3 : line[i] = BQ

\* /^(`{3,}|~{3,})/.test(line)
IsFenceLine(line) ==
    /\ Len(line) >= 3
    /\ \/ \A i \in 1..3 : line[i] = BQ
       \/ \A i \in 1..3 : line[i] = "~"

\* the number of '#' the line starts with
RECURSIVE HashRun(_)
HashRun(line) ==
    IF line # <<>> /\ line[1] = "#" THEN 1 + HashRun(Tail(line)) ELSE 0

\* line.match(/^(#{1,6})\s+/): the length of the '#' run, 0 when no match
HeadingLevel(line) ==
    LET n == HashRun(line)
    IN IF n >= 1 /\ n <= 6 /\ Len(line) > n /\ IsWhitespace(line[n + 1]) THEN n ELSE 0

\* the heading scan of parseSections: lines i.. with the fence flag inCodeBlock
RECURSIVE ScanHeadings(_, _, _)
ScanHeadings(lines, i, inCodeBlock) ==
    IF i > Len(lines) THEN <<>>
    ELSE IF IsFenceLine(lines[i]) THEN ScanHeadings(lines, i + 1, ~inCodeBlock)
    ELSE IF inCodeBlock THEN ScanHeadings(lines, i + 1, inCodeBlock)
    ELSE IF StartsWith(lines[i], <<">">>) THEN ScanHeadings(lines, i + 1, inCodeBlock)
    ELSE IF HeadingLevel(lines[i]) > 0
         THEN <<[heading |-> lines[i], level |-> HeadingLevel(lines[i]), line |-> i]>>
              \o ScanHeadings(lines, i + 1, inCodeBlock)
    ELSE ScanHeadings(lines, i + 1, inCodeBlock)

\* the frontmatter block of parseSections: Some([startLine, endLine]) or Null
DetectFrontmatter(lines) ==
    LET closing == {i \in 2..Len(lines) : lines[i] = DASHES}
    IN IF lines[1] = DASHES /\ closing # {}
       THEN Some([startLine |-> 1, endLine |-> Min(closing)])
       ELSE Null

ContentStartLine(frontmatter) ==
    IF frontmatter = Null THEN 1 ELSE frontmatter[1].endLine + 1

\* PreContentSection emitted whenever there is a heading, gap or no gap
PreContentSectionNoGapTest(headings, contentStartLine) ==
    IF headings # <<>>
    THEN <<[heading |-> Null, level |-> 0, startLine |-> contentStartLine,
            endLine |-> headings[1].line - 1,
            lineCount |-> headings[1].line - contentStartLine, children |-> <<>>]>>
    ELSE <<>>

\* the heading=null region before the first heading, or nothing
PreContentSection(headings, contentStartLine) ==
    IF headings # <<>> /\ headings[1].line > contentStartLine
    THEN <<[heading |-> Null, level |-> 0, startLine |-> contentStartLine,
            endLine |-> headings[1].line - 1,
            lineCount |-> headings[1].line - contentStartLine, children |-> <<>>]>>
    ELSE <<>>

\* one flat region per heading, ending before the next heading or at the end
HeadingSections(headings, totalLines) ==
    [i \in 1..Len(headings) |->
        LET endLine == IF i + 1 <= Len(headings) THEN headings[i + 1].line - 1
                       ELSE totalLines
        IN [heading |-> Some(headings[i].heading), level |-> headings[i].level,
            startLine |-> headings[i].line, endLine |-> endLine,
            lineCount |-> endLine - headings[i].line + 1, children |-> <<>>]]

\* PopStack popping only the strictly deeper entries (> for >=)
RECURSIVE PopStackStrict(_, _, _)
PopStackStrict(stack, flat, level) ==
    IF stack # <<>> /\ flat[stack[Len(stack)]].level > level
    THEN PopStackStrict(SubSeq(stack, 1, Len(stack) - 1), flat, level)
    ELSE stack

\* the while loop of buildHierarchy: pop the entries whose level is >= level
RECURSIVE PopStack(_, _, _)
PopStack(stack, flat, level) ==
    IF stack # <<>> /\ flat[stack[Len(stack)]].level >= level
    THEN PopStack(SubSeq(stack, 1, Len(stack) - 1), flat, level)
    ELSE stack

\* the for loop of buildHierarchy over flat[i..]: the section each one is pushed
\* into, as an index of flat, 0 for the root list; stack holds indices of flat
RECURSIVE AttachAll(_, _, _)
AttachAll(flat, i, stack) ==
    IF i > Len(flat) THEN <<>>
    ELSE IF flat[i].heading = Null THEN <<0>> \o AttachAll(flat, i + 1, stack)
    ELSE LET popped == PopStack(stack, flat, flat[i].level)
             parent == IF popped = <<>> THEN 0 ELSE popped[Len(popped)]
         IN <<parent>> \o AttachAll(flat, i + 1, Append(popped, i))

\* the indices attached to p, in the order they were pushed
RECURSIVE ChildrenOf(_, _, _)
ChildrenOf(attached, p, i) ==
    IF i > Len(attached) THEN <<>>
    ELSE (IF attached[i] = p THEN <<i>> ELSE <<>>) \o ChildrenOf(attached, p, i + 1)

\* the section object flat[i] with the children pushed into it
RECURSIVE SectionTree(_, _, _)
SectionTree(flat, attached, i) ==
    LET kids == ChildrenOf(attached, i, 1)
    IN [flat[i] EXCEPT !.children =
            [k \in 1..Len(kids) |-> SectionTree(flat, attached, kids[k])]]

\* fixEndLines leaving every endLine as the flat list had it
fixEndLinesSkipped(sections) == sections

\* fixEndLines: raise each parent's endLine to its last child's, bottom-up
RECURSIVE fixEndLines(_)
fixEndLines(sections) ==
    [k \in 1..Len(sections) |->
        LET section == sections[k]
        IN IF Len(section.children) > 0
           THEN LET kids == fixEndLines(section.children)
                    endLine == Max2(section.endLine, kids[Len(kids)].endLine)
                IN [section EXCEPT !.children = kids, !.endLine = endLine,
                                   !.lineCount = endLine - section.startLine + 1]
           ELSE section]

buildHierarchy(flatSections) ==
    LET attached == AttachAll(flatSections, 1, <<>>)
        roots == ChildrenOf(attached, 0, 1)
    IN fixEndLines([k \in 1..Len(roots) |-> SectionTree(flatSections, attached, roots[k])])

parseSections(content) ==
    LET lines == SplitLines(content)
        totalLines == Len(lines)
        frontmatter == DetectFrontmatter(lines)
        contentStartLine == ContentStartLine(frontmatter)
        headings == ScanHeadings(lines, contentStartLine, FALSE)
        flatSections == PreContentSection(headings, contentStartLine)
                        \o HeadingSections(headings, totalLines)
    IN [frontmatter |-> frontmatter, sections |-> buildHierarchy(flatSections),
        totalLines |-> totalLines]

\* ------------------------------------------------------------------ patch engine

\* Array.prototype.splice(start, deleteCount, ...items): the array afterwards
Splice(lines, start, deleteCount, items) ==
    LET len == Len(lines)
        actualStart == IF start < 0 THEN Max2(len + start, 0) ELSE Min2(start, len)
        actualDelete == Min2(Max2(deleteCount, 0), len - actualStart)
    IN SubSeq(lines, 1, actualStart) \o items
       \o SubSeq(lines, actualStart + actualDelete + 1, len)

\* the number of elements splice(start, deleteCount) removes
SpliceDeleted(lines, start, deleteCount) ==
    LET len == Len(lines)
        actualStart == IF start < 0 THEN Max2(len + start, 0) ELSE Min2(start, len)
    IN Min2(Max2(deleteCount, 0), len - actualStart)

\* the replacement text of String.prototype.replace for one match: "$$" gives
\* "$" and "$&" the matched text (the other "$" forms need capture groups or
\* the text around the match; no replacement of the model holds them)
RECURSIVE Expand(_, _)
Expand(replace, matched) ==
    IF replace = <<>> THEN <<>>
    ELSE IF Len(replace) >= 2 /\ replace[1] = "$" /\ replace[2] = "$"
         THEN <<"$">> \o Expand(SubSeq(replace, 3, Len(replace)), matched)
    ELSE IF Len(replace) >= 2 /\ replace[1] = "$" /\ replace[2] = "&"
         THEN matched \o Expand(SubSeq(replace, 3, Len(replace)), matched)
    ELSE <<replace[1]>> \o Expand(Tail(replace), matched)

\* content.match(regex).length for a global regex matching the literal search:
\* the occurrences found left to right, each starting after the one before
RECURSIVE CountMatches(_, _)
CountMatches(content, search) ==
    LET k == IndexOf(content, search)
    IN IF k = 0 THEN 0
       ELSE 1 + CountMatches(SubSeq(content, k + Len(search), Len(content)), search)

\* content.replace(regex, replace) for a global regex matching the literal search
RECURSIVE ReplaceEvery(_, _, _)
ReplaceEvery(content, search, replace) ==
    LET k == IndexOf(content, search)
    IN IF k = 0 THEN content
       ELSE SubSeq(content, 1, k - 1) \o Expand(replace, search)
            \o ReplaceEvery(SubSeq(content, k + Len(search), Len(content)), search, replace)

\* content.replace(regex, replace) for a regex without the g flag: first match only
ReplaceOnce(content, search, replace) ==
    LET k == IndexOf(content, search)
    IN IF k = 0 THEN content
       ELSE SubSeq(content, 1, k - 1) \o Expand(replace, search)
            \o SubSeq(content, k + Len(search), Len(content))

\* the characters with a meaning of their own in a regular expression
RegexMeta == {".", "*", "+", "?", "^", "$", "{", "}", "(", ")", "|", "[", "]", "\\"}

\* the flags new RegExp accepts
RegexFlags == {"d", "g", "i", "m", "s", "u", "v", "y"}

\* patch.flags || "g"
FlagsOf(patch) == IF patch.flags = Null \/ patch.flags[1] = <<>> THEN <<"g">> ELSE patch.flags[1]

\* new RegExp(pattern, flags) throws a SyntaxError: an unknown or repeated flag,
\* or a pattern that does not parse.  The patterns of the model are literal text
\* (no character of RegexMeta), which always parses and matches itself, or the
\* lone "(", an unterminated group.
RegExpThrows(pattern, flags) ==
    \/ \E i \in 1..Len(flags) : flags[i] \notin RegexFlags
    \/ \E i, j \in 1..Len(flags) : i # j /\ flags[i] = flags[j]
    \/ pattern = <<"(">>

\* the loop state of patchFile: the text so far, the two counters, and whether
\* an operation threw
PatchState(content) ==
    [content |-> content, patchesApplied |-> 0, linesAffected |-> 0, threw |-> FALSE]

\* the switch of patchFile: one operation applied to the loop state
ApplyPatch(st, patch) ==
    LET content == st.content
        lines == SplitLines(content)
        done(text, affected) ==
            [st EXCEPT !.content = text, !.patchesApplied = @ + 1,
                       !.linesAffected = @ + affected]
    IN CASE patch.type = "replace_lines" ->
              IF patch.startLine = 0 \/ patch.endLine = 0 \/ patch.content = Null THEN st
              ELSE LET start == patch.startLine - 1
                       end == patch.endLine
                   IN done(JoinLines(Splice(lines, start, end - start,
                                            SplitLines(patch.content[1]))),
                           end - start)
         [] patch.type = "insert_after" ->
              IF patch.line = 0 \/ patch.content = Null THEN st
              ELSE done(JoinLines(Splice(lines, patch.line, 0, SplitLines(patch.content[1]))),
                        Len(SplitLines(patch.content[1])))
         [] patch.type = "delete_lines" ->
              IF patch.startLine = 0 \/ patch.endLine = 0 THEN st
              ELSE LET start == patch.startLine - 1
                       end == patch.endLine
                   IN done(JoinLines(Splice(lines, start, end - start, <<>>)),
                           SpliceDeleted(lines, start, end - start))
         [] patch.type = "replace_first" ->
              IF patch.search = Null \/ patch.search[1] = <<>> \/ patch.replace = Null THEN st
              ELSE LET index == IndexOf(content, patch.search[1])
                   IN IF index # 0
                      THEN done(SubSeq(content, 1, index - 1) \o patch.replace[1]
                                \o SubSeq(content, index + Len(patch.search[1]), Len(content)),
                                1)
                      ELSE st
         [] patch.type = "replace_all" ->
              IF patch.search = Null \/ patch.search[1] = <<>> \/ patch.replace = Null THEN st
              ELSE IF CountMatches(content, patch.search[1]) > 0
                   THEN done(ReplaceEvery(content, patch.search[1], patch.replace[1]),
                             CountMatches(content, patch.search[1]))
                   ELSE st
         [] patch.type = "replace_regex" ->
              IF patch.pattern = Null \/ patch.pattern[1] = <<>> \/ patch.replace = Null THEN st
              ELSE IF RegExpThrows(patch.pattern[1], FlagsOf(patch))
                   THEN [st EXCEPT !.threw = TRUE]
              ELSE IF CountMatches(content, patch.pattern[1]) = 0 THEN st
              ELSE IF "g" \in {FlagsOf(patch)[i] : i \in 1..Len(FlagsOf(patch))}
                   THEN done(ReplaceEvery(content, patch.pattern[1], patch.replace[1]),
                             CountMatches(content, patch.pattern[1]))
                   ELSE done(ReplaceOnce(content, patch.pattern[1], patch.replace[1]), 1)

\* ApplyPatches with every operation applied to the text as it was read, so
\* that only the last operation's text is kept
ApplyPatchesOnSnapshot(st, patches, i) ==
    IF patches = <<>> THEN st
    ELSE IF \E k \in 1..Len(patches) : ApplyPatch(st, patches[k]).threw
         THEN [st EXCEPT !.threw = TRUE]
    ELSE ApplyPatch(st, patches[Len(patches)])

\* ApplyPatches with an operation that leaves the loop state as it was ending
\* the loop (break in place of continue)
RECURSIVE ApplyPatchesSkipEndsLoop(_, _, _)
ApplyPatchesSkipEndsLoop(st, patches, i) ==
    IF i > Len(patches) \/ st.threw \/ ApplyPatch(st, patches[i]) = st THEN st
    ELSE ApplyPatchesSkipEndsLoop(ApplyPatch(st, patches[i]), patches, i + 1)

\* the for loop of patchFile over patches[i..]; a throw ends it
RECURSIVE ApplyPatches(_, _, _)
ApplyPatches(st, patches, i) ==
    IF i > Len(patches) \/ st.threw THEN st
    ELSE ApplyPatches(ApplyPatch(st, patches[i]), patches, i + 1)

\* ------------------------------------------------------------------ paths and files

\* config.paths: the configured vaults.  A full path inside a vault is written
\* as the vault's name followed by the normalized segments below the vault's
\* base directory; a path outside every vault is written as "/" followed by
\* its segments from the root.
VaultNames == {"vault", "work"}

\* config.paths[vaultName]: the vault's base directory, absolute and normalized
\* by loadConfig, as its segments from the root
BasePath(vaultName) == <<"srv", vaultName>>

\* a note of the vault
NotePath == <<"vault", "a.md">>

\* a second path of the vault
NewPath == <<"vault", "n.md">>

\* a settings file of the editor
ObsidianPath == <<"vault", ".obsidian", "app.json">>

\* path.normalize of a relative path given as its segments: "." and empty
\* segments go, ".." takes back the segment before it when there is one
RECURSIVE Normalize(_, _)
Normalize(segments, out) ==
    IF segments = <<>> THEN out
    ELSE IF segments[1] \in {".", ""} THEN Normalize(Tail(segments), out)
    ELSE IF segments[1] = ".." /\ out # <<>> /\ out[Len(out)] # ".."
         THEN Normalize(Tail(segments), SubSeq(out, 1, Len(out) - 1))
    ELSE Normalize(Tail(segments), Append(out, segments[1]))

\* path.resolve of an absolute path given as its segments: "." and empty
\* segments go, ".." takes back the segment before it and stays at the root
RECURSIVE Resolve(_, _)
Resolve(segments, out) ==
    IF segments = <<>> THEN out
    ELSE IF segments[1] \in {".", ""} THEN Resolve(Tail(segments), out)
    ELSE IF segments[1] = ".."
         THEN Resolve(Tail(segments), SubSeq(out, 1, Len(out) - 1))
    ELSE Resolve(Tail(segments), Append(out, segments[1]))

\* resolvePath without its two traversal checks
resolvePathUnchecked(path) ==
    LET kept == {n \in 1..Len(path) : path[n] # ""}
        normalizedPath == IF kept = {} THEN <<>> ELSE SubSeq(path, 1, CHOOSE n \in kept : \A k \in kept : k <= n)
        vaultName == IF normalizedPath = <<>> THEN "" ELSE normalizedPath[1]
        relativePath == IF normalizedPath = <<>> THEN <<>> ELSE Tail(normalizedPath)
        basePath == BasePath(vaultName)
        resolved == IF relativePath = <<>> THEN basePath
                    ELSE IF relativePath[1] = "" THEN Resolve(relativePath, <<>>)
                    ELSE Resolve(basePath \o relativePath, <<>>)
        fullPath == IF StartsWith(resolved, basePath)
                    THEN <<vaultName>> \o SubSeq(resolved, Len(basePath) + 1, Len(resolved))
                    ELSE <<"/">> \o resolved
    IN IF vaultName \notin VaultNames
       THEN [error |-> "Invalid vault name", vaultName |-> vaultName,
             relativePath |-> relativePath, fullPath |-> <<"/">>]
       ELSE [error |-> "", vaultName |-> vaultName,
             relativePath |-> relativePath, fullPath |-> fullPath]

\* resolvePath: a virtual path, given as its segments after the leading "/",
\* split into vault name and relative path; error is the message thrown, ""
\* when none is.  A segment is an atom: "..x" stands for the names whose text
\* starts with two dots.
resolvePath(path) ==
    Bind({n \in 1..Len(path) : path[n] # ""}, LAMBDA kept :
    Bind(IF kept = {} THEN <<>>
         ELSE SubSeq(path, 1, CHOOSE n \in kept : \A k \in kept : k <= n),
         LAMBDA normalizedPath :
    Bind(IF normalizedPath = <<>> THEN "" ELSE normalizedPath[1], LAMBDA vaultName :
    Bind(IF normalizedPath = <<>> THEN <<>> ELSE Tail(normalizedPath), LAMBDA relativePath :
    Bind(BasePath(vaultName), LAMBDA basePath :
    Bind(IF relativePath # <<>> /\ relativePath[1] = ""
         THEN <<"">> \o Resolve(relativePath, <<>>)
         ELSE Normalize(relativePath, <<>>), LAMBDA normalized :
    Bind(IF relativePath = <<>> THEN basePath
         ELSE IF relativePath[1] = "" THEN Resolve(relativePath, <<>>)
         ELSE Resolve(basePath \o relativePath, <<>>), LAMBDA resolved :
    Bind(IF StartsWith(resolved, basePath)
         THEN <<vaultName>> \o SubSeq(resolved, Len(basePath) + 1, Len(resolved))
         ELSE <<"/">> \o resolved, LAMBDA fullPath :
       IF vaultName \notin VaultNames
       THEN [error |-> "Invalid vault name", vaultName |-> vaultName,
             relativePath |-> relativePath, fullPath |-> <<"/">>]
       ELSE IF /\ relativePath # <<>>
               /\ normalized # <<>>
               /\ \/ normalized[1] \in {"..", "..x"}
                  \/ \E i \in 2..(Len(normalized) - 1) : normalized[i] = ".."
       THEN [error |-> "Path traversal not allowed", vaultName |-> vaultName,
             relativePath |-> relativePath, fullPath |-> fullPath]
       ELSE IF ~StartsWith(resolved, basePath)
       THEN [error |-> "Path traversal not allowed", vaultName |-> vaultName,
             relativePath |-> relativePath, fullPath |-> fullPath]
       ELSE [error |-> "", vaultName |-> vaultName,
             relativePath |-> relativePath, fullPath |-> fullPath]))))))))

\* existsSync(fullPath)
Exists(files, fullPath) == fullPath \in DOMAIN files

\* writeFileSync(fullPath, content): the files afterwards
WriteFile(files, fullPath, content) ==
    [q \in DOMAIN files \cup {fullPath} |-> IF q = fullPath THEN content ELSE files[q]]

\* unlinkSync(fullPath): the files afterwards
Unlink(files, fullPath) == [q \in DOMAIN files \ {fullPath} |-> files[q]]

\* generateEtag: the first 16 hex digits of the SHA-256 of the content, taken
\* to be free of collisions on the documents of the model: the digest of a text
\* is the text behind a marker no other string starts with
generateEtag(content) == <<"sha256">> \o content

\* the fingerprint of a text no file of the model ever holds
StaleEtag == generateEtag(<<"o", "l", "d">>)

\* a JavaScript string used as a condition: undefined and "" are false
Truthy(optionalString) == optionalString # Null /\ optionalString[1] # <<>>

\* the catch block of every tool: the thrown message as an error result
Thrown(message) == [isError |-> TRUE, error |-> message]

\* ------------------------------------------------------------------ file tools
\* Each tool is an operator from the files and the arguments to the files
\* afterwards (fs) and the response (res).

\* createFile without its test for an existing file
createFileOverwrites(files, path, content) ==
    LET resolved == resolvePath(path)
    IN IF resolved.error # "" THEN [fs |-> files, res |-> Thrown(resolved.error)]
       ELSE [fs |-> WriteFile(files, resolved.fullPath, content),
             res |-> [isError |-> FALSE, error |-> "", success |-> TRUE, path |-> path,
                      etag |-> generateEtag(content)]]

createFile(files, path, content) ==
    LET resolved == resolvePath(path)
    IN IF resolved.error # "" THEN [fs |-> files, res |-> Thrown(resolved.error)]
       ELSE IF Exists(files, resolved.fullPath)
       THEN [fs |-> files, res |-> [isError |-> TRUE, error |-> "File already exists"]]
       ELSE [fs |-> WriteFile(files, resolved.fullPath, content),
             res |-> [isError |-> FALSE, error |-> "", success |-> TRUE, path |-> path,
                      etag |-> generateEtag(content)]]

\* updateFile up to its write: Some(response) when it returns early, Null when
\* the path resolved, the file exists and the fingerprint check passed or was
\* skipped
updateFileCheck(files, path, expectedEtag) ==
    LET resolved == resolvePath(path)
    IN IF resolved.error # "" THEN Some(Thrown(resolved.error))
       ELSE IF ~Exists(files, resolved.fullPath)
       THEN Some([isError |-> TRUE, error |-> "File does not exist"])
       ELSE IF Truthy(expectedEtag)
               /\ generateEtag(files[resolved.fullPath]) # expectedEtag[1]
       THEN Some([isError |-> TRUE, error |-> "Conflict detected",
                  currentEtag |-> generateEtag(files[resolved.fullPath]),
                  expectedEtag |-> expectedEtag[1],
                  currentContent |-> files[resolved.fullPath]])
       ELSE Null

\* updateFile from its write on
updateFileWrite(files, path, content) ==
    [fs |-> WriteFile(files, resolvePath(path).fullPath, content),
     res |-> [isError |-> FALSE, error |-> "", success |-> TRUE, path |-> path,
              etag |-> generateEtag(content)]]

updateFile(files, path, content, expectedEtag) ==
    LET early == updateFileCheck(files, path, expectedEtag)
    IN IF early # Null THEN [fs |-> files, res |-> early[1]]
       ELSE updateFileWrite(files, path, content)

\* patchFile up to its patch loop: the response when it returns early, and the
\* content it read
patchFileRead(files, path, expectedEtag) ==
    LET resolved == resolvePath(path)
    IN IF resolved.error # "" THEN [early |-> Some(Thrown(resolved.error)), content |-> <<>>]
       ELSE IF ~Exists(files, resolved.fullPath)
       THEN [early |-> Some([isError |-> TRUE, error |-> "File does not exist"]),
             content |-> <<>>]
       ELSE IF Truthy(expectedEtag)
               /\ generateEtag(files[resolved.fullPath]) # expectedEtag[1]
       THEN [early |-> Some([isError |-> TRUE, error |-> "Conflict detected",
                             currentEtag |-> generateEtag(files[resolved.fullPath]),
                             expectedEtag |-> expectedEtag[1]]),
             content |-> files[resolved.fullPath]]
       ELSE [early |-> Null, content |-> files[resolved.fullPath]]

\* patchFileWrite patching the text stored at the time of the write instead of
\* the text read before the fingerprint check
patchFileWriteReread(files, path, content, patches) ==
    LET fullPath == resolvePath(path).fullPath
        st == ApplyPatches(PatchState(IF Exists(files, fullPath) THEN files[fullPath]
                                      ELSE content), patches, 1)
    IN IF st.threw
       THEN [fs |-> files, res |-> Thrown("Invalid regular expression")]
       ELSE [fs |-> WriteFile(files, fullPath, st.content),
             res |-> [isError |-> FALSE, error |-> "", success |-> TRUE,
                      path |-> path, patchesApplied |-> st.patchesApplied,
                      linesAffected |-> st.linesAffected,
                      etag |-> generateEtag(st.content)]]

\* patchFile from its patch loop on: the patches applied to the content read,
\* and the write
patchFileWrite(files, path, content, patches) ==
    LET st == ApplyPatches(PatchState(content), patches, 1)
    IN IF st.threw
       THEN [fs |-> files, res |-> Thrown("Invalid regular expression")]
       ELSE [fs |-> WriteFile(files, resolvePath(path).fullPath, st.content),
             res |-> [isError |-> FALSE, error |-> "", success |-> TRUE,
                      path |-> path, patchesApplied |-> st.patchesApplied,
                      linesAffected |-> st.linesAffected,
                      etag |-> generateEtag(st.content)]]

patchFile(files, path, patches, expectedEtag) ==
    LET read == patchFileRead(files, path, expectedEtag)
    IN IF read.early # Null THEN [fs |-> files, res |-> read.early[1]]
       ELSE patchFileWrite(files, path, read.content, patches)

\* readFile with the etag computed from the content it returns
readFileEtagOfReturned(files, path, maxLines) ==
    LET resolved == resolvePath(path)
    IN IF resolved.error # "" THEN [fs |-> files, res |-> Thrown(resolved.error)]
       ELSE IF ~Exists(files, resolved.fullPath)
       THEN [fs |-> files, res |-> Thrown("ENOENT: no such file or directory")]
       ELSE LET lines == SplitLines(files[resolved.fullPath])
                content == IF maxLines > 0 /\ Len(lines) > maxLines
                           THEN JoinLines(Slice(lines, 0, maxLines))
                           ELSE files[resolved.fullPath]
            IN [fs |-> files,
                res |-> [isError |-> FALSE, error |-> "", path |-> path,
                         content |-> content, etag |-> generateEtag(content),
                         truncated |-> (maxLines > 0 /\ Len(lines) > maxLines)]]

\* readFile with its maxLines argument (500 when not given, 0 for no limit)
readFile(files, path, maxLines) ==
    LET resolved == resolvePath(path)
    IN IF resolved.error # "" THEN [fs |-> files, res |-> Thrown(resolved.error)]
       ELSE IF ~Exists(files, resolved.fullPath)
       THEN [fs |-> files, res |-> Thrown("ENOENT: no such file or directory")]
       ELSE LET fullContent == files[resolved.fullPath]
                lines == SplitLines(fullContent)
            IN IF maxLines > 0 /\ Len(lines) > maxLines
               THEN [fs |-> files,
                     res |-> [isError |-> FALSE, error |-> "", path |-> path,
                              content |-> JoinLines(Slice(lines, 0, maxLines)),
                              etag |-> generateEtag(fullContent), truncated |-> TRUE,
                              linesReturned |-> maxLines, totalLines |-> Len(lines)]]
               ELSE [fs |-> files,
                     res |-> [isError |-> FALSE, error |-> "", path |-> path,
                              content |-> fullContent, etag |-> generateEtag(fullContent),
                              truncated |-> FALSE]]

\* ------------------------------------------------------------------ frontmatter
\* A YAML value is written with its JavaScript type (t), the text String()
\* gives for a scalar (s) and the items of an array (items).  An object is the
\* sequence of its <<key, value>> entries in insertion order; no key of the
\* model is an array index, which JavaScript would list first.  An object that
\* is itself a value has t = "object" and its entries as items, each written
\* YamlValue("entry", key, <<value>>).

YamlValue(t, s, items) == [t |-> t, s |-> s, items |-> items]

\* String.prototype.trimStart and trimEnd
RECURSIVE TrimStart(_)
TrimStart(s) ==
    IF s # <<>> /\ (IsWhitespace(s[1]) \/ s[1] = NL) THEN TrimStart(Tail(s)) ELSE s

RECURSIVE TrimEnd(_)
TrimEnd(s) ==
    IF s # <<>> /\ (IsWhitespace(s[Len(s)]) \/ s[Len(s)] = NL)
    THEN TrimEnd(SubSeq(s, 1, Len(s) - 1))
    ELSE s

Trim(s) == TrimEnd(TrimStart(s))

\* s.split(sep) for a one-character separator
RECURSIVE SplitOn(_, _)
SplitOn(s, sep) ==
    LET i == IndexOf(s, <<sep>>)
    IN IF i = 0 THEN <<s>>
       ELSE <<SubSeq(s, 1, i - 1)>> \o SplitOn(SubSeq(s, i + 1, Len(s)), sep)

\* parts.join(sep) for a separator of any length
RECURSIVE JoinWith(_, _)
JoinWith(parts, sep) ==
    IF parts = <<>> THEN <<>>
    ELSE IF Len(parts) = 1 THEN parts[1]
    ELSE parts[1] \o sep \o JoinWith(Tail(parts), sep)

\* FRONTMATTER_REGEX at a candidate end j of the lazy group: where the match
\* of \r?\n---(\r?\n|$) starting at j ends, 0 when it does not match there
ClosingAt(content, j) ==
    LET k == IF j <= Len(content) /\ content[j] = "\r" THEN j + 1 ELSE j
        a == k + 4
    IN IF k + 3 <= Len(content) /\ content[k] = NL /\ SubSeq(content, k + 1, k + 3) = DASHES
       THEN IF a > Len(content) THEN Len(content)
            ELSE IF content[a] = NL THEN a
            ELSE IF content[a] = "\r" /\ a + 1 <= Len(content) /\ content[a + 1] = NL
                 THEN a + 1
            ELSE 0
       ELSE 0

\* content.match(FRONTMATTER_REGEX): Null, or Some of the captured group
\* (raw) and the length of the whole match
FrontmatterMatch(content) ==
    LET open == IF StartsWith(content, DASHES \o <<NL>>) THEN 5
                ELSE IF StartsWith(content, DASHES \o <<"\r", NL>>) THEN 6
                ELSE 0
    IN IF open = 0 THEN Null
       ELSE Bind({j \in open..Len(content) : ClosingAt(content, j) > 0}, LAMBDA ends :
        IF ends = {} THEN Null
        ELSE Bind(Min(ends), LAMBDA end :
            Some([raw |-> SubSeq(content, open, end - 1),
                  length |-> ClosingAt(content, end)])))

\* /^\d+$/.test(s)
AllDigits(s) ==
    s # <<>> /\ \A i \in 1..Len(s) :
                    s[i] \in {"0", "1", "2", "3", "4", "5", "6", "7", "8", "9"}

\* /^-?\d+(\.\d+)?$/.test(value)
IsNumber(value) ==
    LET unsigned == IF StartsWith(value, <<"-">>) THEN Tail(value) ELSE value
        dot == IndexOf(unsigned, <<".">>)
    IN IF dot = 0 THEN AllDigits(unsigned)
       ELSE AllDigits(SubSeq(unsigned, 1, dot - 1))
            /\ AllDigits(SubSeq(unsigned, dot + 1, Len(unsigned)))

RECURSIVE StripLeadingZeros(_)
StripLeadingZeros(s) ==
    IF Len(s) > 1 /\ s[1] = "0" THEN StripLeadingZeros(Tail(s)) ELSE s

RECURSIVE StripTrailingZeros(_)
StripTrailingZeros(s) ==
    IF s # <<>> /\ s[Len(s)] = "0" THEN StripTrailingZeros(SubSeq(s, 1, Len(s) - 1)) ELSE s

\* String(parseFloat(value)) for a value IsNumber holds of, short enough to be
\* printed without an exponent: leading and trailing zeros go, and -0 prints 0
NumberText(value) ==
    LET negative == StartsWith(value, <<"-">>)
        unsigned == IF negative THEN Tail(value) ELSE value
        dot == IndexOf(unsigned, <<".">>)
        whole == StripLeadingZeros(IF dot = 0 THEN unsigned ELSE SubSeq(unsigned, 1, dot - 1))
        fraction == IF dot = 0 THEN <<>>
                    ELSE StripTrailingZeros(SubSeq(unsigned, dot + 1, Len(unsigned)))
        digits == IF fraction = <<>> THEN whole ELSE whole \o <<".">> \o fraction
    IN IF negative /\ digits # <<"0">> THEN <<"-">> \o digits ELSE digits

Quoted(value, q) == StartsWith(value, <<q>>) /\ EndsWith(value, <<q>>)

parseValue(value) ==
    IF Quoted(value, "\"") \/ Quoted(value, "'")
    THEN YamlValue("string", SubSeq(value, 2, Len(value) - 1), <<>>)
    ELSE IF value \in {<<"t", "r", "u", "e">>, <<"f", "a", "l", "s", "e">>}
    THEN YamlValue("boolean", value, <<>>)
    ELSE IF value \in {<<"n", "u", "l", "l">>, <<"~">>}
    THEN YamlValue("null", <<"n", "u", "l", "l">>, <<>>)
    ELSE IF IsNumber(value) THEN YamlValue("number", NumberText(value), <<>>)
    ELSE YamlValue("string", value, <<>>)

\* obj[key] = value: an old key keeps its place, a new one goes last
SetKey(obj, key, value) ==
    IF \E i \in 1..Len(obj) : obj[i][1] = key
    THEN [i \in 1..Len(obj) |-> IF obj[i][1] = key THEN <<key, value>> ELSE obj[i]]
    ELSE Append(obj, <<key, value>>)

\* delete obj[key]
RECURSIVE DeleteKey(_, _)
DeleteKey(obj, key) ==
    IF obj = <<>> THEN <<>>
    ELSE IF obj[1][1] = key THEN DeleteKey(Tail(obj), key)
    ELSE <<obj[1]>> \o DeleteKey(Tail(obj), key)

\* the part of the loop body of parseYaml from "Key-value pair" on
YamlKeyValue(st, trimmed) ==
    LET colonIdx == IndexOf(trimmed, <<":">>)
        key == Trim(SubSeq(trimmed, 1, colonIdx - 1))
        valueStr == Trim(SubSeq(trimmed, colonIdx + 1, Len(trimmed)))
    IN IF colonIdx > 1
       THEN IF valueStr \in {<<>>, <<"|">>, <<">">>}
            THEN [st EXCEPT !.currentKey = key]
            ELSE IF StartsWith(valueStr, <<"[">>) /\ EndsWith(valueStr, <<"]">>)
            THEN LET parts == SplitOn(SubSeq(valueStr, 2, Len(valueStr) - 1), ",")
                 IN [st EXCEPT !.result = SetKey(st.result, key,
                        YamlValue("array", <<>>,
                                  [i \in 1..Len(parts) |-> parseValue(Trim(parts[i]))]))]
            ELSE [st EXCEPT !.result = SetKey(st.result, key, parseValue(valueStr))]
       ELSE IF st.currentKey # <<>> /\ StartsWith(trimmed, <<"-">>)
       THEN [st EXCEPT !.inArray = TRUE,
                       !.arrayItems = Append(st.arrayItems, parseValue(Trim(Tail(trimmed))))]
       ELSE st

\* one turn of the loop of parseYaml
YamlLine(st, line) ==
    Bind(Trim(line), LAMBDA trimmed :
       IF trimmed = <<>> THEN st
       ELSE IF StartsWith(trimmed, <<"-", " ">>) /\ st.inArray
       THEN [st EXCEPT !.arrayItems =
                Append(st.arrayItems, parseValue(Trim(SubSeq(trimmed, 3, Len(trimmed)))))]
       ELSE IF st.inArray /\ ~StartsWith(trimmed, <<"-">>) /\ ~StartsWith(line, <<" ">>)
       THEN YamlKeyValue([st EXCEPT !.result = SetKey(st.result, st.currentKey,
                                                      YamlValue("array", <<>>, st.arrayItems)),
                                    !.inArray = FALSE, !.arrayItems = <<>>], trimmed)
       ELSE YamlKeyValue(st, trimmed))

RECURSIVE YamlLines(_, _, _)
YamlLines(st, lines, i) ==
    IF i > Len(lines) THEN st
    ELSE Bind(YamlLine(st, lines[i]), LAMBDA next : YamlLines(next, lines, i + 1))

parseYaml(yaml) ==
    Bind(SplitLines(yaml), LAMBDA lines :
    Bind(YamlLines([result |-> <<>>, currentKey |-> <<>>, inArray |-> FALSE,
                    arrayItems |-> <<>>], lines, 1), LAMBDA st :
        IF st.inArray /\ st.currentKey # <<>>
        THEN SetKey(st.result, st.currentKey, YamlValue("array", <<>>, st.arrayItems))
        ELSE st.result))

\* value.replace(/"/g, '\\"')
RECURSIVE EscapeQuotes(_)
EscapeQuotes(s) ==
    IF s = <<>> THEN <<>>
    ELSE (IF s[1] = "\"" THEN <<"\\", "\"">> ELSE <<s[1]>>) \o EscapeQuotes(Tail(s))

serializeValue(value) ==
    IF value.t = "string"
    THEN IF Includes(value.s, <<":">>) \/ Includes(value.s, <<"#">>) \/ Includes(value.s, <<NL>>)
         THEN <<"\"">> \o EscapeQuotes(value.s) \o <<"\"">>
         ELSE value.s
    ELSE IF value.t \in {"boolean", "number"} THEN value.s
    ELSE <<"n", "u", "l", "l">>

\* an item of the inline array serializeYaml writes
InlineItem(v) ==
    IF v.t = "string" /\ (Includes(v.s, <<",">>) \/ Includes(v.s, <<":">>))
    THEN <<"\"">> \o v.s \o <<"\"">>
    ELSE v.s

RECURSIVE serializeYaml(_, _)

\* the lines the loop over the items of a block array pushes
RECURSIVE YamlItemLines(_, _, _)
YamlItemLines(items, prefix, indent) ==
    IF items = <<>> THEN <<>>
    ELSE (IF items[1].t = "object"
          THEN <<prefix \o <<" ", " ", "-">>, serializeYaml([i \in 1..Len(items[1].items) |->
                            <<items[1].items[i].s, items[1].items[i].items[1]>>],
                         indent + 2)>>
          ELSE <<prefix \o <<" ", " ", "-", " ">> \o serializeValue(items[1])>>)
         \o YamlItemLines(Tail(items), prefix, indent)

\* the lines serializeYaml pushes for one entry; a pushed line that is the
\* text of a nested serializeYaml holds newlines and ends with one
YamlEntryLines(key, value, indent) ==
    LET prefix == [i \in 1..(2 * indent) |-> " "]
    IN IF value.t = "null" THEN <<prefix \o key \o <<":", " ", "n", "u", "l", "l">>>>
       ELSE IF value.t = "array"
       THEN IF value.items = <<>> THEN <<prefix \o key \o <<":", " ", "[", "]">>>>
            ELSE IF \A i \in 1..Len(value.items) : value.items[i].t \in {"string", "number"}
            THEN <<prefix \o key \o <<":", " ", "[">>
                   \o JoinWith([i \in 1..Len(value.items) |-> InlineItem(value.items[i])],
                               <<",", " ">>)
                   \o <<"]">>>>
            ELSE <<prefix \o key \o <<":">>>> \o YamlItemLines(value.items, prefix, indent)
       ELSE IF value.t = "object"
       THEN <<prefix \o key \o <<":">>,
              serializeYaml([i \in 1..Len(value.items) |->
                                <<value.items[i].s, value.items[i].items[1]>>], indent + 1)>>
       ELSE <<prefix \o key \o <<":", " ">> \o serializeValue(value)>>

RECURSIVE YamlLinesOf(_, _)
YamlLinesOf(obj, indent) ==
    IF obj = <<>> THEN <<>>
    ELSE YamlEntryLines(obj[1][1], obj[1][2], indent) \o YamlLinesOf(Tail(obj), indent)

\* serializeYaml of an object (its entries) whose values are scalars, nested
\* objects, and arrays of scalars and objects
serializeYaml(obj, indent) ==
    Bind(YamlLinesOf(obj, indent), LAMBDA lines : JoinWith(lines, <<NL>>) \o <<NL>>)

\* the spread the other way round, { ...updates, ...currentFm }
SpreadCurrentWins(currentFm, updates) ==
    LET fresh == SelectSeq(updates, LAMBDA e : \A i \in 1..Len(currentFm) : currentFm[i][1] # e[1])
    IN currentFm \o fresh

\* { ...currentFm, ...updates }
RECURSIVE Spread(_, _)
Spread(currentFm, updates) ==
    IF updates = <<>> THEN currentFm
    ELSE Spread(SetKey(currentFm, updates[1][1], updates[1][2]), Tail(updates))

\* the loop "for (const key of remove) delete newFm[key]"
RECURSIVE RemoveKeys(_, _)
RemoveKeys(newFm, remove) ==
    IF remove = <<>> THEN newFm
    ELSE RemoveKeys(DeleteKey(newFm, remove[1]), Tail(remove))

getFrontmatter(files, path) ==
    LET resolved == resolvePath(path)
    IN IF resolved.error # "" THEN [fs |-> files, res |-> Thrown(resolved.error)]
       ELSE IF ~Exists(files, resolved.fullPath)
       THEN [fs |-> files, res |-> [isError |-> TRUE, error |-> "File does not exist"]]
       ELSE Bind(files[resolved.fullPath], LAMBDA content :
            Bind(FrontmatterMatch(content), LAMBDA match :
               IF match = Null
               THEN [fs |-> files,
                     res |-> [isError |-> FALSE, error |-> "", path |-> path,
                              hasFrontmatter |-> FALSE, frontmatter |-> Null,
                              raw |-> Null, etag |-> generateEtag(content)]]
               ELSE [fs |-> files,
                     res |-> [isError |-> FALSE, error |-> "", path |-> path,
                              hasFrontmatter |-> TRUE,
                              frontmatter |-> Some(parseYaml(match[1].raw)),
                              raw |-> Some(match[1].raw), etag |-> generateEtag(content)]]))

\* updateFrontmatter; remove is Null when the argument is left out
updateFrontmatter(files, path, updates, remove, expectedEtag) ==
    LET resolved == resolvePath(path)
    IN IF resolved.error # "" THEN [fs |-> files, res |-> Thrown(resolved.error)]
       ELSE IF ~Exists(files, resolved.fullPath)
       THEN [fs |-> files, res |-> [isError |-> TRUE, error |-> "File does not exist"]]
       ELSE IF Truthy(expectedEtag)
               /\ generateEtag(files[resolved.fullPath]) # expectedEtag[1]
       THEN [fs |-> files,
             res |-> [isError |-> TRUE, error |-> "Conflict detected",
                      currentEtag |-> generateEtag(files[resolved.fullPath]),
                      expectedEtag |-> expectedEtag[1]]]
       ELSE Bind(files[resolved.fullPath], LAMBDA content :
            Bind(FrontmatterMatch(content), LAMBDA match :
            Bind(IF match = Null THEN <<>> ELSE parseYaml(match[1].raw), LAMBDA currentFm :
            Bind(IF match = Null THEN 0 ELSE match[1].length, LAMBDA bodyStart :
            Bind(Spread(currentFm, updates), LAMBDA spread :
            Bind(IF remove = Null THEN spread ELSE RemoveKeys(spread, remove[1]), LAMBDA newFm :
            Bind(SubSeq(content, bodyStart + 1, Len(content)), LAMBDA body :
            Bind(DASHES \o <<NL>> \o serializeYaml(newFm, 0) \o DASHES \o <<NL>> \o body,
                 LAMBDA newContent :
               [fs |-> WriteFile(files, resolved.fullPath, newContent),
                res |-> [isError |-> FALSE, error |-> "", success |-> TRUE,
                         path |-> path, frontmatter |-> newFm,
                         etag |-> generateEtag(newContent)]]))))))))

\* ------------------------------------------------------------------ append, delete, read section

\* appendFile; separator is Null when the option is left out
appendFile(files, path, content, createIfMissing, ensureNewline, separator) ==
    LET resolved == resolvePath(path)
    IN IF resolved.error # "" THEN [fs |-> files, res |-> Thrown(resolved.error)]
       ELSE IF ~Exists(files, resolved.fullPath) /\ ~createIfMissing
       THEN [fs |-> files, res |-> [isError |-> TRUE, error |-> "File does not exist"]]
       ELSE LET old == IF Exists(files, resolved.fullPath) THEN files[resolved.fullPath]
                       ELSE <<>>
                withNewline == IF ensureNewline /\ old # <<>> /\ old[Len(old)] # NL
                               THEN <<NL>> \o content ELSE content
                finalContent == IF Truthy(separator) THEN separator[1] \o withNewline
                                ELSE withNewline
                newContent == IF Exists(files, resolved.fullPath) THEN old \o finalContent
                              ELSE content
            IN [fs |-> WriteFile(files, resolved.fullPath, newContent),
                res |-> [isError |-> FALSE, error |-> "", success |-> TRUE, path |-> path,
                         created |-> ~Exists(files, resolved.fullPath),
                         bytesAppended |-> Len(content), newSize |-> Len(newContent),
                         etag |-> generateEtag(newContent)]]

\* path.includes(".obsidian") on the path as the caller wrote it
IncludesObsidian(path) == \E i \in 1..Len(path) : path[i] = ".obsidian"

\* deleteFile at time timestamp; trashed is the content of the .trash folders,
\* keyed by vault, file name and the timestamp in the trashed name.  Every
\* path of files is a file, never a directory.
deleteFile(files, trashed, path, permanent, timestamp) ==
    LET resolved == resolvePath(path)
    IN IF resolved.error # ""
       THEN [fs |-> files, trash |-> trashed, res |-> Thrown(resolved.error)]
       ELSE IF ~Exists(files, resolved.fullPath)
       THEN [fs |-> files, trash |-> trashed,
             res |-> [isError |-> TRUE, error |-> "File does not exist"]]
       ELSE IF IncludesObsidian(path)
       THEN [fs |-> files, trash |-> trashed,
             res |-> [isError |-> TRUE,
                      error |-> "Cannot delete files in .obsidian directory"]]
       ELSE IF permanent
       THEN [fs |-> Unlink(files, resolved.fullPath), trash |-> trashed,
             res |-> [isError |-> FALSE, error |-> "", success |-> TRUE, path |-> path,
                      permanent |-> TRUE]]
       ELSE LET trashedName == <<resolved.vaultName,
                                 resolved.fullPath[Len(resolved.fullPath)], timestamp>>
            IN [fs |-> Unlink(files, resolved.fullPath),
                trash |-> WriteFile(trashed, trashedName, files[resolved.fullPath]),
                res |-> [isError |-> FALSE, error |-> "", success |-> TRUE, path |-> path,
                         permanent |-> FALSE, trashedTo |-> trashedName]]

\* restoreFromTrash with the destination replaced whatever overwrite says
restoreFromTrashOverwrites(files, trashed, trashPath, restoreTo, overwrite) ==
    LET destPath == IF Truthy(restoreTo) THEN resolvePath(restoreTo[1]).fullPath
                    ELSE <<trashPath[1], trashPath[2]>>
    IN IF trashPath \notin DOMAIN trashed
       THEN [fs |-> files, trash |-> trashed,
             res |-> [isError |-> TRUE, error |-> "File not found in trash"]]
       ELSE [fs |-> WriteFile(files, destPath, trashed[trashPath]),
             trash |-> Unlink(trashed, trashPath),
             res |-> [isError |-> FALSE, error |-> "", success |-> TRUE,
                      restoredFrom |-> trashPath, restoredTo |-> destPath]]

\* restoreFromTrash; trashPath is the trashedTo of a soft delete (vault, file
\* name, timestamp) and restoreTo is Null when the argument is left out.  A
\* directory exists where files lie below it, and renameSync onto it throws.
restoreFromTrash(files, trashed, trashPath, restoreTo, overwrite) ==
    LET resolved == resolvePath(<<trashPath[1]>>)
        destResolved == resolvePath(restoreTo[1])
        destPath == IF Truthy(restoreTo) THEN destResolved.fullPath
                    ELSE <<trashPath[1], trashPath[2]>>
        isDirectory == \E q \in DOMAIN files :
                          Len(q) > Len(destPath) /\ SubSeq(q, 1, Len(destPath)) = destPath
    IN IF resolved.error # ""
       THEN [fs |-> files, trash |-> trashed, res |-> Thrown(resolved.error)]
       ELSE IF trashPath \notin DOMAIN trashed
       THEN [fs |-> files, trash |-> trashed,
             res |-> [isError |-> TRUE, error |-> "File not found in trash"]]
       ELSE IF Truthy(restoreTo) /\ destResolved.error # ""
       THEN [fs |-> files, trash |-> trashed, res |-> Thrown(destResolved.error)]
       ELSE IF (Exists(files, destPath) \/ isDirectory) /\ ~overwrite
       THEN [fs |-> files, trash |-> trashed,
             res |-> [isError |-> TRUE, error |-> "Destination already exists"]]
       ELSE IF isDirectory
       THEN [fs |-> files, trash |-> trashed,
             res |-> Thrown("EISDIR: illegal operation on a directory")]
       ELSE [fs |-> WriteFile(files, destPath, trashed[trashPath]),
             trash |-> Unlink(trashed, trashPath),
             res |-> [isError |-> FALSE, error |-> "", success |-> TRUE,
                      restoredFrom |-> trashPath,
                      restoredTo |-> IF Truthy(restoreTo) THEN restoreTo[1]
                                     ELSE <<trashPath[1], trashPath[2]>>]]

\* findSection returning the last section with the heading instead of the first
RECURSIVE findSectionLast(_, _)
findSectionLast(sections, heading) ==
    IF sections = <<>> THEN Null
    ELSE LET later == findSectionLast(Tail(sections), heading)
             child == findSectionLast(sections[1].children, heading)
         IN IF later # Null THEN later
            ELSE IF child # Null THEN child
            ELSE IF sections[1].heading = Some(heading) THEN Some(sections[1])
            ELSE Null

\* findSection: the first section, parents before children, whose heading is
\* the one asked for; Null when there is none
RECURSIVE findSection(_, _)
findSection(sections, heading) ==
    IF sections = <<>> THEN Null
    ELSE IF sections[1].heading = Some(heading) THEN Some(sections[1])
    ELSE LET child == findSection(sections[1].children, heading)
         IN IF child # Null THEN child ELSE findSection(Tail(sections), heading)

FRONTMATTER == <<"f", "r", "o", "n", "t", "m", "a", "t", "t", "e", "r">>

readSection(files, path, heading, includeChildren, includeHeading) ==
    LET resolved == resolvePath(path)
    IN IF resolved.error # "" THEN [fs |-> files, res |-> Thrown(resolved.error)]
       ELSE IF ~Exists(files, resolved.fullPath)
       THEN [fs |-> files, res |-> Thrown("ENOENT: no such file or directory")]
       ELSE Bind(files[resolved.fullPath], LAMBDA content :
            Bind(SplitLines(content), LAMBDA lines :
            Bind(parseSections(content), LAMBDA parsed :
            Bind(findSection(parsed.sections, heading), LAMBDA match :
            LET first == IF includeHeading THEN match[1].startLine
                         ELSE match[1].startLine + 1
                last == IF ~includeChildren /\ Len(match[1].children) > 0
                        THEN match[1].children[1].startLine - 1
                        ELSE match[1].endLine
                startLine == Max2(first, 1)
                endLine == Min2(last, Len(lines))
            IN IF heading = FRONTMATTER
               THEN IF parsed.frontmatter = Null
                    THEN [fs |-> files,
                          res |-> [isError |-> TRUE, error |-> "No frontmatter found in file"]]
                    ELSE [fs |-> files,
                          res |-> [isError |-> FALSE, error |-> "", path |-> path,
                                   heading |-> heading,
                                   startLine |-> parsed.frontmatter[1].startLine,
                                   endLine |-> parsed.frontmatter[1].endLine,
                                   lineCount |-> parsed.frontmatter[1].endLine
                                                 - parsed.frontmatter[1].startLine + 1,
                                   content |-> JoinLines(Slice(lines,
                                                   parsed.frontmatter[1].startLine - 1,
                                                   parsed.frontmatter[1].endLine)),
                                   etag |-> generateEtag(content)]]
               ELSE IF match = Null
               THEN [fs |-> files,
                     res |-> [isError |-> TRUE, error |-> "Heading not found in file",
                              suggestion |-> "Use get_sections to see available headings in this file."]]
               ELSE [fs |-> files,
                     res |-> [isError |-> FALSE, error |-> "", path |-> path,
                              heading |-> heading, startLine |-> startLine,
                              endLine |-> endLine, lineCount |-> endLine - startLine + 1,
                              content |-> JoinLines(Slice(lines, startLine - 1, endLine)),
                              etag |-> generateEtag(content)]]))))

\* ------------------------------------------------------------------ wikilinks

\* the characters of a file or directory name of the model
NameText(name) ==
    CASE name = "a.md" -> <<"a", ".", "m", "d">>
      [] name = "n.md" -> <<"n", ".", "m", "d">>
      [] name = "b.md" -> <<"b", ".", "m", "d">>
      [] name = "c.md" -> <<"c", ".", "m", "d">>
      [] name = "w.md" -> <<"w", ".", "m", "d">>
      [] name = "app.json" -> <<"a", "p", "p", ".", "j", "s", "o", "n">>
      [] name = ".obsidian" -> <<".", "o", "b", "s", "i", "d", "i", "a", "n">>
      [] OTHER -> <<name>>

\* String.prototype.toLowerCase on the letters the links of the model use
ToLowerCase(s) ==
    [i \in 1..Len(s) |-> CASE s[i] = "A" -> "a" [] s[i] = "C" -> "c" [] s[i] = "N" -> "n" [] s[i] = "M" -> "m"
                            [] s[i] = "D" -> "d" [] s[i] = "P" -> "p" [] OTHER -> s[i]]

\* resolveLink; the files it is asked about all lie in the first configured
\* vault.  The files glob lists are the
\* files of the vault outside .obsidian (the trash of the model is not among
\* the files); no two of them have the same name, so the order of the listing
\* does not matter.  toVirtualPath is called without its vaultName argument,
\* so the virtual path starts with "/undefined/".
resolveLink(files, link) ==
    LET open == IF StartsWith(link, <<"[", "[">>) THEN SubSeq(link, 3, Len(link)) ELSE link
        closed == IF EndsWith(open, <<"]", "]">>) THEN SubSeq(open, 1, Len(open) - 2) ELSE open
        bare == IF StartsWith(closed, <<"!">>) THEN Tail(closed) ELSE closed
        pipeIdx == IndexOf(bare, <<"|">>)
        displayText == IF pipeIdx # 0 THEN Some(SubSeq(bare, pipeIdx + 1, Len(bare))) ELSE Null
        noText == IF pipeIdx # 0 THEN SubSeq(bare, 1, pipeIdx - 1) ELSE bare
        hashIdx == IndexOf(noText, <<"#">>)
        afterHash == SubSeq(noText, hashIdx + 1, Len(noText))
        heading0 == IF hashIdx # 0 /\ ~StartsWith(afterHash, <<"^">>) THEN Some(afterHash)
                    ELSE Null
        noHash == IF hashIdx # 0 THEN SubSeq(noText, 1, hashIdx - 1) ELSE noText
        caretIdx == IndexOf(noHash, <<"^">>)
        blockRef0 == IF caretIdx # 0 THEN Some(SubSeq(noHash, caretIdx + 1, Len(noHash)))
                     ELSE Null
        cleanLink == IF caretIdx # 0 THEN SubSeq(noHash, 1, caretIdx - 1) ELSE noHash
        split == Truthy(heading0) /\ Includes(heading0[1], <<"^">>)
        parts == SplitOn(heading0[1], "^")
        heading == IF ~split THEN heading0
                   ELSE IF parts[1] # <<>> THEN Some(parts[1]) ELSE Null
        blockRef == IF ~split THEN blockRef0
                    ELSE IF parts[2] # <<>> THEN Some(parts[2]) ELSE Null
        linkName == Trim(cleanLink)
        isMd == EndsWith(linkName, <<".", "m", "d">>)
        exactPath == IF isMd THEN linkName ELSE linkName \o <<".", "m", "d">>
        relative(q, k) == JoinWith([i \in 1..(k - 1) |-> NameText(q[i + 1])], <<"/">>)
        baseName(q) == NameText(q[Len(q)])
        exact == {q \in DOMAIN files :
                    \E k \in 2..Len(q) : relative(q, k) = exactPath /\ q[1] = "vault"}
        listed == {q \in DOMAIN files :
                     q[1] = "vault" /\ \A i \in 2..(Len(q) - 1) : q[i] # ".obsidian"}
        byName == {q \in listed :
                     /\ EndsWith(baseName(q), <<".", "m", "d">>)
                     /\ ToLowerCase(SubSeq(baseName(q), 1, Len(baseName(q)) - 3))
                            = ToLowerCase(linkName)}
        byFile == {q \in listed : ToLowerCase(baseName(q)) = ToLowerCase(linkName)}
        found(rel, h, b) ==
            [targetPath |-> Some(<<"/", "u", "n", "d", "e", "f", "i", "n", "e", "d", "/">> \o rel),
             targetExists |-> TRUE, heading |-> h, blockRef |-> b,
             displayText |-> displayText]
        whole(q) == relative(q, Len(q))
    IN IF exact # {} THEN found(exactPath, heading, blockRef)
       ELSE IF byName # {} THEN found(whole(CHOOSE q \in byName : TRUE), heading, blockRef)
       ELSE IF ~isMd /\ byFile # {} THEN found(whole(CHOOSE q \in byFile : TRUE), Null, Null)
       ELSE [targetPath |-> Null, targetExists |-> FALSE, heading |-> heading,
             blockRef |-> blockRef, displayText |-> displayText]

\* resolveWikilink answering a link that resolves to nothing with an error
resolveWikilinkUnresolvedThrows(files, link) ==
    Bind(resolveLink(files, link), LAMBDA r :
        [fs |-> files,
         res |-> IF r.targetPath = Null THEN Thrown("Link target not found")
                 ELSE [isError |-> FALSE, error |-> "", link |-> link,
                       resolved |-> TRUE, targetPath |-> r.targetPath,
                       targetExists |-> r.targetExists, heading |-> r.heading,
                       blockRef |-> r.blockRef, displayText |-> r.displayText]])

\* resolveWikilink: the link, resolved, and the fields of resolveLink
resolveWikilink(files, link) ==
    Bind(resolveLink(files, link), LAMBDA r :
        [fs |-> files,
         res |-> [isError |-> FALSE, error |-> "", link |-> link,
                  resolved |-> r.targetPath # Null, targetPath |-> r.targetPath,
                  targetExists |-> r.targetExists, heading |-> r.heading,
                  blockRef |-> r.blockRef, displayText |-> r.displayText]])

\* ------------------------------------------------------------------ tags

\* content.match(FRONTMATTER_REGEX) with the regex of the tag tools,
\* /^---\r?\n([\s\S]*?)\r?\n---/: Null, or Some of the group (inner) and the
\* number of characters matched (length)
TagFrontmatterMatch(content) ==
    LET open == IF StartsWith(content, DASHES \o <<NL>>) THEN 4
                ELSE IF StartsWith(content, DASHES \o <<"\r", NL>>) THEN 5 ELSE 0
        closes == {j \in (open + 1)..Len(content) :
                     \/ j + 3 <= Len(content) /\ SubSeq(content, j, j + 3) = <<NL>> \o DASHES
                     \/ j + 4 <= Len(content)
                        /\ SubSeq(content, j, j + 4) = <<"\r", NL>> \o DASHES}
    IN IF open = 0 \/ closes = {} THEN Null
       ELSE Some([inner |-> SubSeq(content, open + 1, Min(closes) - 1),
                  length |-> Min(closes) + (IF content[Min(closes)] = NL THEN 3 ELSE 4)])

\* extractFrontmatterTags.  The regexes are tried at the first "tags:" of the
\* frontmatter (the frontmatter of the model has at most one); the third form,
\* a block list, is only tried when the text after "tags:" is blank or starts
\* with "[", and then /tags:\s*\n\s*-/ cannot match there either.
extractFrontmatterTags(content) ==
    Bind(TagFrontmatterMatch(content), LAMBDA fmMatch :
        LET fm == fmMatch[1].inner
            at == IndexOf(fm, <<"t", "a", "g", "s", ":">>)
            after == TrimStart(SubSeq(fm, at + 5, Len(fm)))
            close == IndexOf(after, <<"]">>)
            nl == IndexOf(after, <<NL>>)
            rest == IF nl = 0 THEN after ELSE SubSeq(after, 1, nl - 1)
            unquote(t) == SelectSeq(Trim(t), LAMBDA c : c \notin {"'", "\""})
            cleaned(parts) == SelectSeq([i \in 1..Len(parts) |-> unquote(parts[i])],
                                        LAMBDA t : t # <<>>)
            blanked == [i \in 1..Len(rest) |->
                          IF IsWhitespace(rest[i]) THEN "," ELSE rest[i]]
        IN IF fmMatch = Null \/ at = 0 THEN <<>>
           ELSE IF StartsWith(after, <<"[">>) /\ close # 0
           THEN cleaned(SplitOn(SubSeq(after, 2, close - 1), ","))
           ELSE IF rest # <<>> /\ ~StartsWith(Trim(rest), <<"[">>)
           THEN cleaned(SplitOn(blanked, ","))
           ELSE <<>>)

\* line.match(/#[\w\-\/]+/g) from position i on, each match without its "#"
RECURSIVE InlineTags(_, _)
InlineTags(line, i) ==
    LET tagChar(c) == c \in {"a", "b", "c", "d", "e", "f", "g", "h", "i", "j", "k", "l", "m",
                             "n", "o", "p", "q", "r", "s", "t", "u", "v", "w", "x", "y", "z",
                             "P", "0", "1", "2", "3", "4", "5", "6", "7", "8", "9",
                             "_", "-", "/"}
        stops == {j \in (i + 1)..Len(line) : ~tagChar(line[j])}
        end == IF stops = {} THEN Len(line) ELSE Min(stops) - 1
    IN IF i > Len(line) THEN <<>>
       ELSE IF line[i] = "#" /\ end > i
       THEN <<SubSeq(line, i + 1, end)>> \o InlineTags(line, end + 1)
       ELSE InlineTags(line, i + 1)

\* TagMatches without the "/": any tag that starts with the search tag
TagMatchesPrefix(tag, searchTag) == StartsWith(ToLowerCase(tag), searchTag)

\* the test of both matching loops and of hasEnoughMatches: the tag, in lower
\* case, is the search tag or starts with the search tag and "/"
TagMatches(tag, searchTag) ==
    \/ ToLowerCase(tag) = searchTag
    \/ StartsWith(ToLowerCase(tag), searchTag \o <<"/">>)

\* the loops that fill matchedTags: the tags found[k..] in order, each pushed
\* when it matches a search tag and is not in matchedTags yet
RECURSIVE PushMatched(_, _, _, _)
PushMatched(matchedTags, found, k, normalizedTags) ==
    IF k > Len(found) THEN matchedTags
    ELSE PushMatched(
            IF /\ \E n \in 1..Len(normalizedTags) : TagMatches(found[k], normalizedTags[n])
               /\ \A m \in 1..Len(matchedTags) : matchedTags[m] # found[k]
            THEN Append(matchedTags, found[k]) ELSE matchedTags,
            found, k + 1, normalizedTags)

\* searchByTag without a path argument, over the one vault.  Of each result
\* the path and matchedTags are kept (title and tagLocations are left out);
\* the markdown files outside .obsidian are taken in an order glob chooses.
searchByTag(files, tags, match, location) ==
    LET normalizedTags == [i \in 1..Len(tags) |->
                             ToLowerCase(IF StartsWith(tags[i], <<"#">>) THEN Tail(tags[i])
                                         ELSE tags[i])]
        matchedIn(content) ==
            LET lines == SplitLines(content)
                fmMatch == TagFrontmatterMatch(content)
                startLine == IF StartsWith(content, DASHES) /\ fmMatch # Null
                             THEN Len(SplitLines(SubSeq(content, 1, fmMatch[1].length)))
                             ELSE 0
                inline == IF startLine >= Len(lines) THEN <<>>
                          ELSE JoinWith([i \in 1..(Len(lines) - startLine) |->
                                            InlineTags(lines[startLine + i], 1)], <<>>)
                fromFm == IF location \in {"frontmatter", "both"}
                          THEN PushMatched(<<>>, extractFrontmatterTags(content), 1,
                                           normalizedTags)
                          ELSE <<>>
            IN IF location \in {"body", "both"}
               THEN PushMatched(fromFm, inline, 1, normalizedTags)
               ELSE fromFm
        hasEnoughMatches(matchedTags) ==
            IF match = "any" THEN Len(matchedTags) > 0
            ELSE \A n \in 1..Len(normalizedTags) :
                    \E m \in 1..Len(matchedTags) : TagMatches(matchedTags[m], normalizedTags[n])
        listed == {q \in DOMAIN files :
                     /\ \A i \in 2..(Len(q) - 1) : q[i] # ".obsidian"
                     /\ EndsWith(NameText(q[Len(q)]), <<".", "m", "d">>)}
        hits == {q \in listed : hasEnoughMatches(matchedIn(files[q]))}
        order == CHOOSE f \in [1..Cardinality(hits) -> hits] :
                    /\ \A q \in hits : \E i \in DOMAIN f : f[i] = q
                    /\ \A i, j \in DOMAIN f :
                          i < j => Len(matchedIn(files[f[i]])) >= Len(matchedIn(files[f[j]]))
    IN [fs |-> files,
        res |-> [isError |-> FALSE, error |-> "", tags |-> tags, match |-> match,
                 results |-> [i \in 1..Cardinality(hits) |->
                                [path |-> <<"/", "u", "n", "d", "e", "f", "i", "n", "e", "d">>
                                          \o JoinWith([k \in 1..(Len(order[i]) - 1) |->
                                                <<"/">> \o NameText(order[i][k + 1])], <<>>),
                                 matchedTags |-> matchedIn(files[order[i]])]],
                 totalMatches |-> Cardinality(hits)]]

\* ------------------------------------------------------------------ links to a file

\* where the wikilink to name that starts at content[i] ends, 0 when none
\* starts there: "[[", the name, a "#" part that runs to the next "]" or "|"
\* (heading says whether the pattern has none, requires one, or takes one when
\* it is there), a "|" part that runs to the next "]", and "]]"
LinkEnd(content, i, name, heading, ignoreCase) ==
    LET fold(s) == IF ignoreCase THEN ToLowerCase(s) ELSE s
        at(k) == IF k <= Len(content) THEN content[k] ELSE "end"
        stop(k, S) == Min({x \in k..Len(content) : content[x] \in S} \cup {Len(content) + 1})
        j == i + 2 + Len(name)
        hasHeading == heading # "none" /\ at(j) = "#"
        h == IF hasHeading THEN stop(j + 1, {"]", "|"}) ELSE j
        a == IF at(h) = "|" THEN stop(h + 1, {"]"}) ELSE h
    IN IF /\ j - 1 <= Len(content)
          /\ SubSeq(content, i, i + 1) = <<"[", "[">>
          /\ fold(SubSeq(content, i + 2, j - 1)) = fold(name)
          /\ (heading = "required" => hasHeading)
          /\ at(a) = "]"
          /\ at(a + 1) = "]"
       THEN a + 1
       ELSE 0

\* the matches of a global pattern from content[i] on, left to right and not
\* overlapping, each as <<start, end>>
RECURSIVE LinkMatches(_, _, _, _, _)
LinkMatches(content, i, name, heading, ignoreCase) ==
    IF i > Len(content) THEN <<>>
    ELSE Bind(LinkEnd(content, i, name, heading, ignoreCase), LAMBDA e :
            IF e = 0 THEN LinkMatches(content, i + 1, name, heading, ignoreCase)
            ELSE <<<<i, e>>>> \o LinkMatches(content, e + 1, name, heading, ignoreCase))

\* content.replace(pattern, callback) of updateWikilinks from the k-th match
\* on, the text before that match being copied from content[from]: every
\* match becomes "[[" newPathClean, "#" and what follows the first "#" of the
\* match up to "|" or "]", "|" and what follows the first "|", and "]]"
RECURSIVE RewriteLinks(_, _, _, _, _)
RewriteLinks(content, matches, k, from, newPathClean) ==
    IF k > Len(matches) THEN SubSeq(content, from, Len(content))
    ELSE LET match == SubSeq(content, matches[k][1], matches[k][2])
             pipe == IndexOf(match, <<"|">>)
             hash == IndexOf(match, <<"#">>)
             hashEnd == Min({x \in (hash + 1)..Len(match) : match[x] \in {"|", "]"}})
             headingPart == IF hash # 0 THEN <<"#">> \o SubSeq(match, hash + 1, hashEnd - 1)
                            ELSE <<>>
             aliasPart == IF pipe # 0 THEN SubSeq(match, pipe, Len(match) - 2) ELSE <<>>
             newLink == <<"[", "[">> \o newPathClean \o headingPart \o aliasPart \o <<"]", "]">>
         IN SubSeq(content, from, matches[k][1] - 1) \o newLink
            \o RewriteLinks(content, matches, k + 1, matches[k][2] + 1, newPathClean)

\* the files glob("**/*.md") lists in the vaults, .obsidian left out
MarkdownFiles(files) ==
    {q \in DOMAIN files :
        /\ q[1] \in VaultNames
        /\ EndsWith(NameText(q[Len(q)]), <<".", "m", "d">>)
        /\ \A i \in 2..(Len(q) - 1) : q[i] # ".obsidian"}

\* a path below its first n segments as text, ".md" at its end removed
CleanText(path, n) ==
    LET text == JoinWith([i \in 1..(Len(path) - n) |-> NameText(path[i + n])], <<"/">>)
    IN IF EndsWith(text, <<".", "m", "d">>) THEN SubSeq(text, 1, Len(text) - 3) ELSE text

\* basename(fullPath, extname(fullPath))
BaseName(fullPath) ==
    LET name == NameText(fullPath[Len(fullPath)])
        dots == {i \in 2..Len(name) : name[i] = "."}
    IN IF dots = {} THEN name ELSE SubSeq(name, 1, (CHOOSE d \in dots : \A x \in dots : x <= d) - 1)

\* updateWikilinks: the four patterns applied one after the other to every
\* markdown file of every vault; oldPath and newPath are the virtual paths of
\* the request, from which "/vault/" and ".md" are cut
updateWikilinks(files, oldName, oldPath, newPath) ==
    LET oldPathClean == IF Len(oldPath) >= 2 THEN CleanText(oldPath, 1)
                        ELSE <<"/">> \o CleanText(oldPath, 0)
        newPathClean == IF Len(newPath) >= 2 THEN CleanText(newPath, 1)
                        ELSE <<"/">> \o CleanText(newPath, 0)
        step(st, name, heading) ==
            Bind(LinkMatches(st.text, 1, name, heading, FALSE), LAMBDA matches :
                [text |-> RewriteLinks(st.text, matches, 1, 1, newPathClean),
                 n |-> st.n + Len(matches)])
        rewritten(content) ==
            step(step(step(step([text |-> content, n |-> 0],
                                oldPathClean, "none"), oldPathClean, "required"),
                      oldName, "none"), oldName, "required")
        done == [q \in MarkdownFiles(files) |-> rewritten(files[q])]
        modified == {q \in MarkdownFiles(files) : done[q].n > 0}
        RECURSIVE Sum(_)
        Sum(S) == IF S = {} THEN 0
                  ELSE LET q == CHOOSE x \in S : TRUE IN done[q].n + Sum(S \ {q})
    IN [fs |-> [q \in DOMAIN files |-> IF q \in modified THEN done[q].text ELSE files[q]],
        linksUpdated |-> Sum(modified),
        filesUpdated |-> modified]

\* moveFile of a file (every path of files is a file): the checks, the rename
\* (or copy and unlink across vaults), which throws when the directory of the
\* destination does not exist, then updateWikilinks on the files as they are
\* after the move.  filesUpdated is kept as a set: glob decides the
\* order.
moveFile(files, source, destination, updateLinks, overwrite) ==
    LET sourceResolved == resolvePath(source)
        destResolved == resolvePath(destination)
        from == sourceResolved.fullPath
        to == destResolved.fullPath
        moved == WriteFile(Unlink(files, from), to, files[from])
        oldName == BaseName(from)
        movedWith(after, linksUpdated, filesUpdated) ==
            [fs |-> after,
             res |-> [isError |-> FALSE, error |-> "", success |-> TRUE,
                      source |-> source, destination |-> destination,
                      linksUpdated |-> linksUpdated, filesUpdated |-> filesUpdated]]
    IN IF sourceResolved.error # "" THEN [fs |-> files, res |-> Thrown(sourceResolved.error)]
       ELSE IF destResolved.error # "" THEN [fs |-> files, res |-> Thrown(destResolved.error)]
       ELSE IF ~Exists(files, from)
       THEN [fs |-> files, res |-> [isError |-> TRUE, error |-> "Source does not exist"]]
       ELSE IF IncludesObsidian(source) \/ IncludesObsidian(destination)
       THEN [fs |-> files,
             res |-> [isError |-> TRUE,
                      error |-> "Cannot move files in/to .obsidian directory"]]
       ELSE IF Exists(files, to) /\ ~overwrite
       THEN [fs |-> files, res |-> [isError |-> TRUE, error |-> "Destination already exists"]]
       ELSE IF Len(to) > 2 /\ \A q \in DOMAIN files : ~(Len(q) >= Len(to) /\ SubSeq(q, 1, Len(to) - 1) = SubSeq(to, 1, Len(to) - 1))
       THEN [fs |-> files, res |-> Thrown("ENOENT")]
       ELSE IF updateLinks
       THEN Bind(updateWikilinks(moved, oldName, source, destination), LAMBDA r :
                movedWith(r.fs, r.linksUpdated, r.filesUpdated))
       ELSE movedWith(moved, 0, {})

\* renameFile: the new path is the new name in the directory of the old one
renameFile(files, path, newName, updateLinks) ==
    LET resolved == resolvePath(path)
    IN IF resolved.error # "" THEN [fs |-> files, res |-> Thrown(resolved.error)]
       ELSE IF ~Exists(files, resolved.fullPath)
       THEN [fs |-> files, res |-> [isError |-> TRUE, error |-> "File does not exist"]]
       ELSE moveFile(files, path, SubSeq(path, 1, Len(path) - 1) \o <<newName>>,
                     updateLinks, FALSE)

\* backlinks.sort left out: the sources in the order they were scanned
MostLinksFirstSkipped(counts) ==
    CHOOSE s \in [1..Cardinality(DOMAIN counts) -> DOMAIN counts] :
        \A i, j \in DOMAIN s : i < j => s[i] < s[j]

\* backlinks.sort((a, b) => b.matches.length - a.matches.length), a stable
\* sort: the indices of counts, the larger count first and, of equal counts,
\* the smaller index first
MostLinksFirst(counts) ==
    CHOOSE s \in [1..Cardinality(DOMAIN counts) -> DOMAIN counts] :
        /\ \A i, j \in DOMAIN s : i # j => s[i] # s[j]
        /\ \A i, j \in DOMAIN s :
              i < j => \/ counts[s[i]] > counts[s[j]]
                       \/ counts[s[i]] = counts[s[j]] /\ s[i] < s[j]

\* getBacklinks without context lines.  No document of the model has
\* frontmatter, so the title of a source is its file name; toVirtualPath is
\* called without its vaultName argument, so sourcePath starts with
\* "/undefined/", and file tells which file the entry is about.  glob decides
\* the order of the files; the model takes one order.
getBacklinks(files, path) ==
    LET resolved == resolvePath(path)
        fullPath == BasePath(resolved.vaultName) \o Tail(resolved.fullPath)
        targetName == BaseName(fullPath)
        targetPath == CleanText(path, 0)
        sources == MarkdownFiles(files) \ {resolved.fullPath}
        listing == CHOOSE s \in [1..Cardinality(sources) -> sources] :
                      \A i, j \in DOMAIN s : i # j => s[i] # s[j]
        found(line, lineNum, name) ==
            Bind(LinkMatches(line, 1, name, "optional", TRUE), LAMBDA ms :
                [k \in 1..Len(ms) |->
                    [line |-> lineNum, linkText |-> SubSeq(line, ms[k][1], ms[k][2])]])
        RECURSIVE Scan(_, _)
        Scan(lines, lineNum) ==
            IF lineNum > Len(lines) THEN <<>>
            ELSE found(lines[lineNum], lineNum, targetPath)
                 \o found(lines[lineNum], lineNum, targetName)
                 \o Scan(lines, lineNum + 1)
        scanned == [i \in DOMAIN listing |-> Scan(SplitLines(files[listing[i]]), 1)]
        kept == {i \in DOMAIN listing : Len(scanned[i]) > 0}
        sorted == MostLinksFirst([i \in kept |-> Len(scanned[i])])
        RECURSIVE Total(_)
        Total(i) == IF i = 0 THEN 0 ELSE Len(scanned[i]) + Total(i - 1)
    IN IF resolved.error # "" THEN [fs |-> files, res |-> Thrown(resolved.error)]
       ELSE [fs |-> files,
             res |-> [isError |-> FALSE, error |-> "", targetPath |-> path,
                      backlinks |->
                          [i \in DOMAIN sorted |->
                              [sourcePath |-> <<"/", "u", "n", "d", "e", "f", "i", "n", "e", "d", "/">>
                                              \o JoinWith([k \in 1..(Len(listing[sorted[i]]) - 1) |->
                                                             NameText(listing[sorted[i]][k + 1])], <<"/">>),
                               file |-> listing[sorted[i]],
                               sourceTitle |-> BaseName(listing[sorted[i]]),
                               matches |-> scanned[sorted[i]]]],
                      totalCount |-> Total(Len(listing))]]

\* ------------------------------------------------------------------ batch write
\* A write operation has a type, a path, a content (empty for delete) and an
\* expectedEtag (Null unless an update carries one).  The variables of
\* batchWrite are fs (the files), results, successCount, failureCount and
\* error, Some of the message once the execution loop has returned early.

\* the validation loop of atomic mode over operations[i..]: Some of the error
\* it ends the call with, Null when every operation passes
RECURSIVE BatchValidate(_, _, _)
BatchValidate(files, operations, i) ==
    IF i > Len(operations) THEN Null
    ELSE LET op == operations[i]
             resolved == resolvePath(op.path)
         IN IF resolved.error # "" THEN Some(resolved.error)
            ELSE IF op.type = "create" /\ Exists(files, resolved.fullPath)
            THEN Some("Atomic batch failed - file already exists")
            ELSE IF op.type = "update" /\ ~Exists(files, resolved.fullPath)
            THEN Some("Atomic batch failed - file not found for update")
            ELSE IF op.type = "update" /\ Truthy(op.expectedEtag)
                    /\ generateEtag(files[resolved.fullPath]) # op.expectedEtag[1]
            THEN Some("Atomic batch failed - ETag mismatch")
            ELSE IF op.type = "delete" /\ ~Exists(files, resolved.fullPath)
            THEN Some("Atomic batch failed - file not found for delete")
            ELSE BatchValidate(files, operations, i + 1)

BatchSuccess(st, op, files, etag) ==
    [st EXCEPT !.fs = files,
               !.results = Append(@, [path |-> op.path, success |-> TRUE,
                                      operation |-> op.type, etag |-> etag,
                                      error |-> ""]),
               !.successCount = @ + 1]

\* a failure pushed by the switch in non-atomic mode, followed by continue
BatchFailure(st, op, message) ==
    [st EXCEPT !.results = Append(@, [path |-> op.path, success |-> FALSE,
                                      operation |-> op.type, etag |-> Null,
                                      error |-> message]),
               !.failureCount = @ + 1]

\* the catch block of the execution loop
BatchCaught(st, op, message, atomic) ==
    [BatchFailure(st, op, message) EXCEPT
        !.error = IF atomic THEN Some("Atomic batch failed during " \o op.type) ELSE Null]

\* one turn of the execution loop
BatchStep(st, op, atomic) ==
    LET resolved == resolvePath(op.path)
        exists == Exists(st.fs, resolved.fullPath)
    IN IF resolved.error # "" THEN BatchCaught(st, op, resolved.error, atomic)
       ELSE CASE op.type = "create" ->
                    IF exists /\ ~atomic THEN BatchFailure(st, op, "File already exists")
                    ELSE BatchSuccess(st, op, WriteFile(st.fs, resolved.fullPath, op.content),
                                      Some(generateEtag(op.content)))
              [] op.type = "update" ->
                    IF ~exists /\ ~atomic THEN BatchFailure(st, op, "File not found")
                    ELSE BatchSuccess(st, op, WriteFile(st.fs, resolved.fullPath, op.content),
                                      Some(generateEtag(op.content)))
              [] op.type = "append" ->
                    LET content == IF exists THEN st.fs[resolved.fullPath] \o op.content
                                   ELSE op.content
                    IN BatchSuccess(st, op, WriteFile(st.fs, resolved.fullPath, content),
                                    Some(generateEtag(content)))
              [] op.type = "delete" ->
                    IF ~exists /\ ~atomic THEN BatchFailure(st, op, "File not found")
                    ELSE IF ~exists
                    THEN BatchCaught(st, op, "ENOENT: no such file or directory", atomic)
                    ELSE BatchSuccess(st, op, Unlink(st.fs, resolved.fullPath), Null)

\* the execution loop over operations[i..]
RECURSIVE BatchExecute(_, _, _, _)
BatchExecute(st, operations, i, atomic) ==
    IF i > Len(operations) \/ st.error # Null THEN st
    ELSE Bind(BatchStep(st, operations[i], atomic),
              LAMBDA next : BatchExecute(next, operations, i + 1, atomic))

batchWrite(files, operations, atomic) ==
    Bind(IF atomic THEN BatchValidate(files, operations, 1) ELSE Null, LAMBDA invalid :
        IF invalid # Null
        THEN [fs |-> files, res |-> [isError |-> TRUE, error |-> invalid[1]]]
        ELSE Bind(BatchExecute([fs |-> files, results |-> <<>>, successCount |-> 0,
                                failureCount |-> 0, error |-> Null],
                               operations, 1, atomic), LAMBDA st :
            IF st.error # Null
            THEN [fs |-> st.fs, res |-> [isError |-> TRUE, error |-> st.error[1]]]
            ELSE [fs |-> st.fs,
                  res |-> [isError |-> FALSE, error |-> "", results |-> st.results,
                           successCount |-> st.successCount,
                           failureCount |-> st.failureCount, atomic |-> atomic]]))

\* ------------------------------------------------------------------ requests

\* the response slot of a request that has not been served yet
Pending == [op |-> "pending"]

\* the lines the parsed documents are made of: frontmatter delimiter, headings
\* of three levels, both fence kinds, a blockquoted heading, and a '#' line
\* that is no heading
LineSet ==
    { DASHES,
      <<"#", " ", "A">>,
      <<"#", "#", " ", "B">>,
      <<"#", "#", "#", " ", "C">>,
      <<BQ, BQ, BQ>>,
      <<"~", "~", "~", "~">>,
      <<">", " ", "#", " ", "A">>,
      <<"#", "t">> }

Documents == UNION {[1..n -> LineSet] : n \in 1..MaxLines}

\* a call of parseSections on the document of the request
ParseSections ==
    /\ call.op = "parseSections"
    /\ result = Pending
    /\ result' = parseSections(call.content)
    /\ UNCHANGED <<fs, trash, now, call, known, pc, local>>

\* a call of readSection on the note that holds the document of the request
ReadSectionOfNote ==
    /\ call.op = "readSection"
    /\ result = Pending
    /\ result' = readSection(fs, NotePath, call.heading,
                              call.includeChildren, call.includeHeading).res
    /\ UNCHANGED <<fs, trash, now, call, known, pc, local>>

\* the parser is a pure function: every document of the bound is a request to
\* parse it, and every document of headings of two levels, a fence and a line
\* that is no heading is a request to read the section under one of these lines
InitSections ==
    /\ trash = <<>>
    /\ now = 0
    /\ call \in {[op |-> "parseSections", content |-> JoinLines(ls)] : ls \in Documents}
          \cup {[op |-> "readSection", content |-> JoinLines(ls), heading |-> h,
                 includeChildren |-> ic, includeHeading |-> ih] :
                     ls \in {d \in Documents : \A k \in DOMAIN d :
                                d[k] \in {<<"#", " ", "A">>, <<"#", "#", " ", "B">>,
                                          <<"~", "~", "~", "~">>, <<"#", "t">>}},
                     h \in {<<"#", " ", "A">>, <<"#", "#", " ", "B">>, <<"#", "t">>},
                     ic \in BOOLEAN, ih \in BOOLEAN}
    /\ fs = [q \in {NotePath} |-> call.content]
    /\ result = Pending
    /\ known = <<>>
    /\ pc = "parse"
    /\ local = <<>>

SpecSections == InitSections /\ [][ParseSections \/ ReadSectionOfNote]_vars

\* ------------------------------------------------------------------ patch sequencing

\* a text written with one string per character
T1 == <<"1", NL, "2", NL, "3">>

PatchDocuments == {T1, <<"a", "a", NL, "2">>, <<>>}

\* a patch operation on lines; a number left out is 0 and a string left out
\* is Null (the source tests both the same way: !0 and !undefined are true)
LinePatch(type, startLine, endLine, line, content) ==
    [type |-> type, startLine |-> startLine, endLine |-> endLine, line |-> line,
     content |-> content, search |-> Null, replace |-> Null, pattern |-> Null,
     flags |-> Null]

\* a find-and-replace patch operation
TextPatch(type, search, replace, pattern, flags) ==
    [type |-> type, startLine |-> 0, endLine |-> 0, line |-> 0, content |-> Null,
     search |-> search, replace |-> replace, pattern |-> pattern, flags |-> flags]

\* the operations the patch lists are made of: each kind with fields that
\* apply, fields that are missing, line numbers past the end, and a pattern and
\* a flag that do not compile
PatchOps ==
    { LinePatch("replace_lines", 2, 3, 0, Some(<<"A", NL, "B">>)),
      LinePatch("replace_lines", 1, 1, 0, Some(<<"x">>)),
      LinePatch("replace_lines", 0, 1, 0, Some(<<"x">>)),
      LinePatch("replace_lines", 2, 1, 0, Some(<<"x">>)),
      LinePatch("replace_lines", 1, 1, 0, Null),
      LinePatch("insert_after", 0, 0, 1, Some(<<"X">>)),
      LinePatch("insert_after", 0, 0, 0, Some(<<"X">>)),
      LinePatch("insert_after", 0, 0, 5, Some(<<"X", NL, "Y">>)),
      LinePatch("insert_after", 0, 0, 1, Null),
      LinePatch("delete_lines", 1, 1, 0, Null),
      LinePatch("delete_lines", 2, 3, 0, Null),
      LinePatch("delete_lines", 1, 0, 0, Null),
      TextPatch("replace_first", Some(<<"a">>), Some(<<"2">>), Null, Null),
      TextPatch("replace_first", Some(<<>>), Some(<<"x">>), Null, Null),
      TextPatch("replace_all", Some(<<"2">>), Some(<<"a">>), Null, Null),
      TextPatch("replace_all", Some(<<"a">>), Some(<<"$", "&", "$", "$">>), Null, Null),
      TextPatch("replace_all", Some(<<"a">>), Null, Null, Null),
      TextPatch("replace_regex", Null, Some(<<"1">>), Some(<<"a">>), Null),
      TextPatch("replace_regex", Null, Some(<<"1">>), Some(<<"a">>), Some(<<"m">>)),
      TextPatch("replace_regex", Null, Some(<<"x">>), Some(<<"(">>), Null),
      TextPatch("replace_regex", Null, Some(<<"x">>), Some(<<"a">>), Some(<<"z">>)) }

PatchLists == UNION {[1..n -> PatchOps] : n \in 0..MaxPatches}

\* one patchFile request with the whole list, on the copy at NotePath
PatchWhole ==
    /\ pc.whole = "todo"
    /\ LET r == patchFile(fs, NotePath, local.patches, Null)
       IN /\ fs' = r.fs
          /\ result' = r.res
          /\ call' = [op |-> "patchFile", path |-> NotePath, patches |-> local.patches,
                      expectedEtag |-> Null]
          /\ pc' = [pc EXCEPT !.whole = IF r.res.isError THEN "error" ELSE "done"]
    /\ UNCHANGED <<trash, now, known, local>>

\* the next of the successive patchFile requests, each with one operation, on
\* the copy at NewPath
PatchNext ==
    /\ pc.next <= Len(local.patches)
    /\ LET r == patchFile(fs, NewPath, <<local.patches[pc.next]>>, Null)
       IN /\ fs' = r.fs
          /\ result' = r.res
          /\ call' = [op |-> "patchFile", path |-> NewPath,
                      patches |-> <<local.patches[pc.next]>>, expectedEtag |-> Null]
          /\ pc' = [pc EXCEPT !.next = @ + 1,
                              !.errors = @ + (IF r.res.isError THEN 1 ELSE 0)]
    /\ UNCHANGED <<trash, now, known, local>>

\* two copies of a document and a patch list: one copy gets the list in one
\* request, the other one request per operation
InitPatch ==
    /\ \E doc \in PatchDocuments, patches \in PatchLists :
        /\ fs = [q \in {NotePath, NewPath} |-> doc]
        /\ local = [doc |-> doc, patches |-> patches]
    /\ trash = <<>>
    /\ now = 0
    /\ call = Pending
    /\ result = Pending
    /\ known = <<>>
    /\ pc = [whole |-> "todo", next |-> 1, errors |-> 0]

SpecPatch == InitPatch /\ [][PatchWhole \/ PatchNext]_vars

\* both runs are over
PatchRunsDone ==
    /\ DOMAIN pc = {"whole", "next", "errors"}
    /\ pc.whole # "todo"
    /\ pc.next > Len(local.patches)

\* C3 as claimed: for every document and patch list, the text stored by one
\* patchFile request with the whole list equals the text stored by successive
\* single-patch requests.
C3_AsClaimed == PatchRunsDone => fs[NotePath] = fs[NewPath]

\* C3 amended: the two texts are equal whenever the whole-list request
\* succeeds; when an operation throws (a replace_regex that does not compile)
\* the whole-list request writes nothing, and the successive requests have
\* applied every operation but the throwing ones.
C3_PatchSequencing ==
    PatchRunsDone =>
        /\ pc.whole = "done" => (fs[NotePath] = fs[NewPath] /\ pc.errors = 0)
        /\ pc.whole = "error" => (fs[NotePath] = local.doc /\ pc.errors > 0)

\* the list [replace_lines(2,3,"A\nB"), insert_after(1,"X")] on "1\n2\n3": the
\* insertion lands in the text the replacement produced
C3_Witness ==
    /\ PatchRunsDone
    /\ local.doc = T1
    /\ local.patches = <<LinePatch("replace_lines", 2, 3, 0, Some(<<"A", NL, "B">>)),
                         LinePatch("insert_after", 0, 0, 1, Some(<<"X">>))>>
    /\ fs[NotePath] = <<"1", NL, "X", NL, "A", NL, "B">>
    /\ fs[NewPath] = fs[NotePath]

\* the whole-list request has been served for a list of one insert_after
\* operation that has its content and names line 0 or a line of the document
InsertServed ==
    /\ DOMAIN pc = {"whole", "next", "errors"}
    /\ pc.whole # "todo"
    /\ Len(local.patches) = 1
    /\ local.patches[1].type = "insert_after"
    /\ local.patches[1].content # Null
    /\ local.patches[1].line <= Len(SplitLines(local.doc))

\* C15: insert_after(line, content) stores the document with the lines of
\* content inserted immediately after its line-th line, and with line = 0
\* before its first line.
C15_AsClaimed ==
    InsertServed =>
        LET lines == SplitLines(local.doc)
            line == local.patches[1].line
        IN fs[NotePath] = JoinLines(SubSeq(lines, 1, line)
                                    \o SplitLines(local.patches[1].content[1])
                                    \o SubSeq(lines, line + 1, Len(lines)))

\* the operation lacks a field its type requires
LacksField(patch) ==
    CASE patch.type = "replace_lines" ->
            patch.startLine = 0 \/ patch.endLine = 0 \/ patch.content = Null
      [] patch.type = "insert_after" -> patch.line = 0 \/ patch.content = Null
      [] patch.type = "delete_lines" -> patch.startLine = 0 \/ patch.endLine = 0
      [] patch.type \in {"replace_first", "replace_all"} ->
            patch.search = Null \/ patch.replace = Null
      [] patch.type = "replace_regex" -> patch.pattern = Null \/ patch.replace = Null

\* C16: an operation that lacks a required field changes nothing, is not
\* counted and does not make the request fail: the whole-list request stores
\* the text, reports the counts and succeeds or fails exactly as the request
\* with the same list without these operations does, and a list of nothing
\* but such operations answers success with patchesApplied = 0 and leaves the
\* text as it was.
C16_SkippedOperations ==
    [][(pc.whole = "todo" /\ pc'.whole # "todo") =>
          LET complete == SelectSeq(local.patches, LAMBDA patch : ~LacksField(patch))
              expected == patchFile(fs, NotePath, complete, Null)
          IN /\ fs'[NotePath] = expected.fs[NotePath]
             /\ result' = expected.res
             /\ complete = <<>> =>
                    /\ ~result'.isError
                    /\ result'.patchesApplied = 0
                    /\ fs'[NotePath] = local.doc]_vars

\* a request whose first operation has no content and whose second replaced a
\* line: one operation counted, the text changed, no error
C16_Witness ==
    /\ DOMAIN pc = {"whole", "next", "errors"}
    /\ pc.whole = "done"
    /\ call.path = NotePath
    /\ Len(local.patches) = 2
    /\ LacksField(local.patches[1])
    /\ local.patches[1].content = Null
    /\ local.patches[2].type = "replace_lines"
    /\ result.patchesApplied = 1
    /\ fs[NotePath] # local.doc

\* ------------------------------------------------------------------ check-then-write race

\* updateFile and patchFile requests for the note, each with every kind of
\* expectedEtag: none, the empty string, the right one, a stale one
RaceCalls ==
    LET etags == {Null, Some(<<>>), Some(generateEtag(T1)), Some(StaleEtag)}
    IN {[op |-> "updateFile", path |-> NotePath, content |-> <<"m", "i", "n", "e">>,
         patches |-> <<>>, expectedEtag |-> e] : e \in etags}
       \cup
       {[op |-> "patchFile", path |-> NotePath, content |-> <<>>, patches |-> ps,
         expectedEtag |-> e] :
            ps \in {<<LinePatch("insert_after", 0, 0, 1, Some(<<"X">>))>>,
                    <<TextPatch("replace_all", Some(<<"2">>), Some(<<"a">>), Null, Null),
                      LinePatch("delete_lines", 1, 1, 0, Null)>>,
                    <<TextPatch("replace_regex", Null, Some(<<"x">>), Some(<<"(">>), Null)>>},
            e \in etags}

\* the handler up to its write: existence and fingerprint are checked on the
\* content read now
RaceCheck ==
    /\ pc = "start"
    /\ LET early == IF call.op = "updateFile"
                    THEN updateFileCheck(fs, call.path, call.expectedEtag)
                    ELSE patchFileRead(fs, call.path, call.expectedEtag).early
       IN /\ pc' = IF early = Null THEN "checked" ELSE "done"
          /\ result' = IF early = Null THEN result ELSE early[1]
          /\ local' = [local EXCEPT !.read = fs[NotePath]]
    /\ UNCHANGED <<fs, trash, now, call, known>>

\* another process (the editor, a sync client) stores a different text
OtherWriter ==
    /\ pc \in {"start", "checked"}
    /\ local.theirs = Null
    /\ \E text \in {<<"t", "h", "e", "i", "r", "s">>, <<"1", NL, "2">>, <<>>} \ {fs[NotePath]} :
        /\ fs' = WriteFile(fs, NotePath, text)
        /\ local' = [local EXCEPT !.theirs = Some(text), !.between = (pc = "checked")]
    /\ UNCHANGED <<trash, now, call, result, known, pc>>

\* the handler from its write on, with the content it read at the check
RaceWrite ==
    /\ pc = "checked"
    /\ LET r == IF call.op = "updateFile"
                THEN updateFileWrite(fs, call.path, call.content)
                ELSE patchFileWrite(fs, call.path, local.read, call.patches)
       IN /\ fs' = r.fs
          /\ result' = r.res
    /\ pc' = "done"
    /\ UNCHANGED <<trash, now, call, known, local>>

InitRace ==
    /\ fs = [q \in {NotePath} |-> T1]
    /\ trash = <<>>
    /\ now = 0
    /\ call \in RaceCalls
    /\ result = Pending
    /\ known = <<>>
    /\ pc = "start"
    /\ local = [read |-> <<>>, theirs |-> Null, between |-> FALSE]

SpecRace == InitRace /\ [][RaceCheck \/ OtherWriter \/ RaceWrite]_vars

\* what the call does when nobody else writes
Undisturbed ==
    IF call.op = "updateFile"
    THEN updateFile([q \in {NotePath} |-> local.read], call.path, call.content,
                    call.expectedEtag)
    ELSE patchFile([q \in {NotePath} |-> local.read], call.path, call.patches,
                   call.expectedEtag)

\* C6: when another writer changes the file between the fingerprint check of
\* updateFile or patchFile and its write, the write step does not look at the
\* file again: the call answers exactly as it would have without the other
\* writer, never with a conflict, and wherever that answer is a success the
\* stored text is the call's own, computed from the text it checked, and the
\* other writer's text is gone.
C6_LostUpdate ==
    [][(pc = "checked" /\ pc' = "done" /\ local.between) =>
          /\ result' = Undisturbed.res
          /\ result'.error # "Conflict detected"
          /\ ~result'.isError =>
                /\ fs'[NotePath] = Undisturbed.fs[NotePath]
                /\ fs'[NotePath] # fs[NotePath]
                /\ fs[NotePath] = local.theirs[1]]_vars

\* a patchFile call sent with the right fingerprint has answered success after
\* the other writer stored a text in between, and that text is gone
C6_Witness ==
    /\ pc = "done"
    /\ call.op = "patchFile"
    /\ Truthy(call.expectedEtag)
    /\ local.between
    /\ ~result.isError
    /\ local.theirs = Some(<<"t", "h", "e", "i", "r", "s">>)
    /\ fs[NotePath] = <<"1", NL, "X", NL, "2", NL, "3">>

\* ------------------------------------------------------------------ the file tools as a server

ToolPaths == {NotePath, NewPath, ObsidianPath}

\* "---\nk: 1\n---\n# H\nx"
NoteText ==
    <<"-", "-", "-", NL, "k", ":", " ", "1", NL, "-", "-", "-", NL, "#", " ", "H", NL, "x">>

\* "x" and "# H\ny\n"
NewTexts == {<<"x">>, <<"#", " ", "H", NL, "y", NL>>}

\* the full path a virtual path names
Full(path) == resolvePath(path).fullPath

\* the fingerprints a client sends for a path: none, the empty string, one it
\* never got for the stored text, and the one it was last given for the path
ClientEtags(path) ==
    {Null, Some(<<>>), Some(StaleEtag)}
    \cup (IF Full(path) \in DOMAIN known THEN {Some(known[Full(path)])} ELSE {})

\* the client keeps the etag a successful write returned for the path
Remember(path, res) ==
    IF res.isError THEN known
    ELSE [q \in DOMAIN known \cup {Full(path)} |->
            IF q = Full(path) THEN res.etag ELSE known[q]]

\* the client drops the etag of a path another kind of write has touched
Forget(path, res) ==
    IF res.isError THEN known ELSE [q \in DOMAIN known \ {Full(path)} |-> known[q]]

Idle == pc.at = "idle" /\ pc.n < MaxRequests

\* the response r.res to the request c, and the files r.fs it leaves
Respond(r, c) ==
    /\ fs' = r.fs
    /\ result' = r.res
    /\ call' = c
    /\ pc' = [at |-> "responded", n |-> pc.n + 1]

CreateFile ==
    /\ Idle
    /\ \E path \in ToolPaths, content \in NewTexts :
        LET r == createFile(fs, path, content)
        IN /\ Respond(r, [op |-> "createFile", path |-> path, content |-> content])
           /\ known' = Remember(path, r.res)
    /\ UNCHANGED <<trash, now, local>>

UpdateFile ==
    /\ Idle
    /\ \E path \in ToolPaths, content \in NewTexts :
        \E expectedEtag \in ClientEtags(path) :
            LET r == updateFile(fs, path, content, expectedEtag)
            IN /\ Respond(r, [op |-> "updateFile", path |-> path, content |-> content,
                              expectedEtag |-> expectedEtag])
               /\ known' = Remember(path, r.res)
    /\ UNCHANGED <<trash, now, local>>

PatchFile ==
    /\ Idle
    /\ \E path \in ToolPaths,
          patches \in {<<LinePatch("insert_after", 0, 0, 1, Some(<<"X">>))>>,
                       <<TextPatch("replace_first", Some(<<"x">>), Some(<<"y">>), Null, Null),
                         TextPatch("replace_regex", Null, Some(<<"x">>), Some(<<"(">>),
                                   Null)>>} :
        \E expectedEtag \in ClientEtags(path) :
            LET r == patchFile(fs, path, patches, expectedEtag)
            IN /\ Respond(r, [op |-> "patchFile", path |-> path, patches |-> patches,
                              expectedEtag |-> expectedEtag])
               /\ known' = Remember(path, r.res)
    /\ UNCHANGED <<trash, now, local>>

UpdateFrontmatter ==
    /\ Idle
    /\ \E path \in ToolPaths,
          u \in {[updates |-> <<<<<<"k">>, YamlValue("number", <<"2">>, <<>>)>>>>,
                  remove |-> Null],
                 [updates |-> <<<<<<"t">>, YamlValue("array", <<>>,
                                    <<YamlValue("string", <<"a">>, <<>>)>>)>>>>,
                  remove |-> Some(<<<<"k">>>>)],
                 [updates |-> <<<<<<"t">>, YamlValue("string", <<"b">>, <<>>)>>,
                                <<<<"u">>, YamlValue("boolean", <<"t", "r", "u", "e">>, <<>>)>>>>,
                  remove |-> Some(<<<<"u">>>>)]} :
        \E expectedEtag \in ClientEtags(path) :
            LET r == updateFrontmatter(fs, path, u.updates, u.remove, expectedEtag)
            IN /\ Respond(r, [op |-> "updateFrontmatter", path |-> path,
                              updates |-> u.updates, remove |-> u.remove,
                              expectedEtag |-> expectedEtag])
               /\ known' = Remember(path, r.res)
    /\ UNCHANGED <<trash, now, local>>

AppendFile ==
    /\ Idle
    /\ \E path \in ToolPaths, createIfMissing \in BOOLEAN :
        LET r == appendFile(fs, path, <<"z">>, createIfMissing, TRUE, Null)
        IN /\ Respond(r, [op |-> "appendFile", path |-> path, content |-> <<"z">>,
                          createIfMissing |-> createIfMissing])
           /\ known' = Forget(path, r.res)
    /\ UNCHANGED <<trash, now, local>>

\* deleteFile at a time not before the last one
DeleteFile ==
    /\ Idle
    /\ \E path \in ToolPaths, permanent \in BOOLEAN, timestamp \in {now, now + 1} :
        LET r == deleteFile(fs, trash, path, permanent, timestamp)
        IN /\ Respond(r, [op |-> "deleteFile", path |-> path, permanent |-> permanent])
           /\ trash' = r.trash
           /\ now' = timestamp
           /\ known' = Forget(path, r.res)
    /\ UNCHANGED local

RestoreFromTrash ==
    /\ Idle
    /\ \E trashPath \in DOMAIN trash \cup {<<"vault", "a.md", now + 1>>},
          restoreTo \in {Null, Some(NotePath), Some(NewPath), Some(<<"vault">>)},
          overwrite \in BOOLEAN :
        LET r == restoreFromTrash(fs, trash, trashPath, restoreTo, overwrite)
        IN /\ Respond(r, [op |-> "restoreFromTrash", trashPath |-> trashPath,
                          restoreTo |-> restoreTo, overwrite |-> overwrite])
           /\ trash' = r.trash
           /\ known' = IF r.res.isError THEN known
                       ELSE [q \in DOMAIN known \ {Full(r.res.restoredTo)} |-> known[q]]
    /\ UNCHANGED <<now, local>>

ReadFile ==
    /\ Idle
    /\ \E path \in ToolPaths, maxLines \in {0, 2} :
        Respond(readFile(fs, path, maxLines),
                [op |-> "readFile", path |-> path, maxLines |-> maxLines])
    /\ UNCHANGED <<trash, now, known, local>>

ReadSection ==
    /\ Idle
    /\ \E path \in ToolPaths, heading \in {<<"#", " ", "H">>, FRONTMATTER} :
        Respond(readSection(fs, path, heading, TRUE, TRUE),
                [op |-> "readSection", path |-> path, heading |-> heading])
    /\ UNCHANGED <<trash, now, known, local>>

ResolveWikilink ==
    /\ Idle
    /\ \E link \in {<<"a">>, <<"[", "[", "A", "]", "]">>, <<"n", ".", "M", "D">>,
                     <<"[", "[", "n", "|", "t", "]", "]">>, <<"a", "#", "h", "^", "b">>,
                     <<"z">>, <<"a", "p", "p", ".", "j", "s", "o", "n">>, <<>>} :
        Respond(resolveWikilink(fs, link), [op |-> "resolveWikilink", link |-> link])
    /\ UNCHANGED <<trash, now, known, local>>

GetFrontmatter ==
    /\ Idle
    /\ \E path \in ToolPaths :
        Respond(getFrontmatter(fs, path), [op |-> "getFrontmatter", path |-> path])
    /\ UNCHANGED <<trash, now, known, local>>

\* the vault at the start: a note, and a settings file of the editor
InitialFiles ==
    [q \in {NotePath, ObsidianPath} |-> IF q = NotePath THEN NoteText ELSE <<"{", "}">>]

\* the response is out and the server waits for the next request
Return ==
    /\ pc.at = "responded"
    /\ pc' = [pc EXCEPT !.at = "idle"]
    /\ call' = Pending
    /\ result' = Pending
    /\ UNCHANGED <<fs, trash, now, known, local>>

Init ==
    /\ fs = InitialFiles
    /\ trash = <<>>
    /\ now = 0
    /\ call = Pending
    /\ result = Pending
    /\ known = <<>>
    /\ pc = [at |-> "idle", n |-> 0]
    /\ local = <<>>

Next ==
    \/ CreateFile
    \/ UpdateFile
    \/ PatchFile
    \/ UpdateFrontmatter
    \/ AppendFile
    \/ DeleteFile
    \/ RestoreFromTrash
    \/ ReadFile
    \/ ReadSection
    \/ GetFrontmatter
    \/ ResolveWikilink
    \/ Return

Spec == Init /\ [][Next]_vars

\* ------------------------------------------------------------------ claims on the file tools

\* the server has just answered the request call'
Answered == pc.at = "idle" /\ pc'.at = "responded"

EtagTools == {"updateFile", "patchFile", "updateFrontmatter"}

ReadTools == {"readFile", "readSection", "getFrontmatter"}

\* C1 as claimed: whenever updateFile, patchFile or updateFrontmatter is given
\* an expectedEtag that differs from the fingerprint of the stored content, the
\* files are left as they were and the response is the 'Conflict detected'
\* error with currentEtag and expectedEtag.
C1_AsClaimed ==
    [][(/\ Answered
        /\ call'.op \in EtagTools
        /\ call'.expectedEtag # Null
        /\ Full(call'.path) \in DOMAIN fs
        /\ call'.expectedEtag[1] # generateEtag(fs[Full(call'.path)]))
       => /\ fs' = fs
          /\ result'.isError
          /\ result'.error = "Conflict detected"
          /\ result'.currentEtag = generateEtag(fs[Full(call'.path)])
          /\ result'.expectedEtag = call'.expectedEtag[1]]_vars

\* C2: the etag a successful createFile, updateFile, patchFile or
\* updateFrontmatter returned is the fingerprint of the stored content for as
\* long as no other write touches the file: every read of the file that
\* returns an etag (readFile, truncated or not, readSection, getFrontmatter)
\* returns that one, and updateFile, patchFile and updateFrontmatter given it
\* as expectedEtag do not answer 'Conflict detected'.
C2_EtagOfStoredContent ==
    [][(Answered /\ "path" \in DOMAIN call' /\ Full(call'.path) \in DOMAIN known) =>
          /\ Full(call'.path) \in DOMAIN fs
          /\ known[Full(call'.path)] = generateEtag(fs[Full(call'.path)])
          /\ (call'.op \in ReadTools /\ ~result'.isError)
                => result'.etag = known[Full(call'.path)]
          /\ (call'.op = "readFile") => ~result'.isError
          /\ (call'.op \in EtagTools
              /\ call'.expectedEtag = Some(known[Full(call'.path)]))
                => result'.error # "Conflict detected"]_vars

\* a file a tool wrote is read back cut to two lines, and the etag of the
\* response is the one the write returned
C2_Witness ==
    /\ pc.at = "responded"
    /\ call.op = "readFile"
    /\ ~result.isError
    /\ result.truncated
    /\ Full(call.path) \in DOMAIN known
    /\ result.etag = known[Full(call.path)]
    /\ result.content # fs[Full(call.path)]

\* the files below an .obsidian directory
ObsidianFiles(files) ==
    [q \in {f \in DOMAIN files : IncludesObsidian(f)} |-> files[q]]

\* C5 as claimed: after any sequence of tool calls the files below .obsidian/
\* are the ones that were there at the start, with the same contents.
C5_AsClaimed == ObsidianFiles(fs) = ObsidianFiles(InitialFiles)

\* the value an object holds for a key, Null when it has no such key
Get(obj, key) ==
    IF \E i \in 1..Len(obj) : obj[i][1] = key
    THEN Some(obj[CHOOSE i \in 1..Len(obj) : obj[i][1] = key][2])
    ELSE Null

\* the keys of an object
Keys(obj) == {obj[i][1] : i \in 1..Len(obj)}

\* the mapping getFrontmatter reports for the path of the request just
\* answered, read before the request was served
FrontmatterBefore ==
    LET before == getFrontmatter(fs, call'.path).res.frontmatter
    IN IF before = Null THEN <<>> ELSE before[1]

UpdateAnswered == Answered /\ call'.op = "updateFrontmatter" /\ ~result'.isError

\* C13: the mapping a successful updateFrontmatter answers with has no key of
\* the removal list, has the supplied value for every other key of updates,
\* and for every key named in neither has exactly what the frontmatter held
\* before the call (nothing, when it had no such key); a key both updated and
\* removed is absent.
C13_MergeSemantics ==
    [][UpdateAnswered =>
          LET after == result'.frontmatter
              removed == IF call'.remove = Null THEN {}
                         ELSE {call'.remove[1][i] : i \in 1..Len(call'.remove[1])}
          IN /\ \A i, j \in 1..Len(after) : after[i][1] = after[j][1] => i = j
             /\ \A key \in Keys(after) \cup Keys(FrontmatterBefore)
                             \cup Keys(call'.updates) \cup removed :
                    IF key \in removed THEN Get(after, key) = Null
                    ELSE IF key \in Keys(call'.updates)
                    THEN Get(after, key) = Get(call'.updates, key)
                    ELSE Get(after, key) = Get(FrontmatterBefore, key)]_vars

\* an update that set a key (t), left another alone (k) and was answered
\* without the key it both set and removed (u)
C13_Witness ==
    /\ call.op = "updateFrontmatter"
    /\ result # Pending
    /\ ~result.isError
    /\ Get(call.updates, <<"u">>) # Null
    /\ Get(result.frontmatter, <<"u">>) = Null
    /\ Get(result.frontmatter, <<"k">>) = Some(YamlValue("number", <<"2">>, <<>>))
    /\ Get(result.frontmatter, <<"t">>) = Some(YamlValue("string", <<"b">>, <<>>))
    /\ \E i \in 1..Len(fs[NotePath]) : SubSeq(fs[NotePath], i, i + 3) = <<"t", ":", " ", "b">>

\* C14: when patchFile detects a fingerprint mismatch its error response
\* carries currentEtag, expectedEtag and the current content of the document.
C14_AsClaimed ==
    (call.op = "patchFile" /\ result # Pending /\ result.error = "Conflict detected") =>
        /\ {"currentEtag", "expectedEtag", "currentContent"} \subseteq DOMAIN result
        /\ result.currentEtag = generateEtag(fs[Full(call.path)])
        /\ result.expectedEtag = call.expectedEtag[1]
        /\ result.currentContent = fs[Full(call.path)]

\* the files of the vault that resolveLink can find
Linkable(files) ==
    {q \in DOMAIN files : \A i \in 1..Len(q) : q[i] # ".obsidian"}

\* C17: resolveWikilink never answers with an error; when the target matches
\* no file of the vault (by path, by note name or by file name, letter case
\* aside) it answers resolved = false with targetPath null and targetExists
\* false; and in every answer resolved, targetExists and targetPath # null
\* have the same truth value.
C17_UnresolvedIsNoError ==
    (call.op = "resolveWikilink" /\ result # Pending) =>
        LET target == ToLowerCase(Trim(SelectSeq(call.link, LAMBDA c : c \notin {"[", "]"})))
            names == UNION {{ToLowerCase(NameText(q[Len(q)])),
                             ToLowerCase(SubSeq(NameText(q[Len(q)]), 1,
                                                Len(NameText(q[Len(q)])) - 3))} :
                            q \in Linkable(fs)}
        IN /\ ~result.isError
           /\ result.resolved = result.targetExists
           /\ result.resolved = (result.targetPath # Null)
           /\ (\A name \in names : ~StartsWith(target, name)) => ~result.resolved

\* a link to a note that has been deleted, answered unresolved, no error
C17_Witness ==
    /\ call.op = "resolveWikilink"
    /\ result # Pending
    /\ call.link = <<"[", "[", "A", "]", "]">>
    /\ NotePath \notin DOMAIN fs
    /\ ~result.isError
    /\ ~result.resolved
    /\ result.targetPath = Null
    /\ ~result.targetExists

\* C19: a deleteFile with permanent = false takes the file from its path and
\* keeps its content, unchanged, in the trash under the trashedTo it returns;
\* restoreFromTrash of a trashed file to a free path (the path it was deleted
\* from, right after the delete) succeeds, stores there the content the trash
\* held and removes the trash entry; restoreFromTrash onto an existing
\* destination without overwrite answers an error and changes neither the
\* files nor the trash.
C19_TrashRoundTrip ==
    [][Answered =>
          /\ (call'.op = "deleteFile" /\ ~call'.permanent /\ ~result'.isError) =>
                /\ Full(call'.path) \in DOMAIN fs
                /\ Full(call'.path) \notin DOMAIN fs'
                /\ result'.trashedTo \in DOMAIN trash'
                /\ trash'[result'.trashedTo] = fs[Full(call'.path)]
                /\ \A q \in DOMAIN fs' : fs'[q] = fs[q]
          /\ (/\ call'.op = "restoreFromTrash"
              /\ call'.trashPath \in DOMAIN trash
              /\ call'.restoreTo \in {Some(NotePath), Some(NewPath)}
              /\ call'.restoreTo[1] \notin DOMAIN fs) =>
                /\ ~result'.isError
                /\ fs' = WriteFile(fs, call'.restoreTo[1], trash[call'.trashPath])
                /\ call'.trashPath \notin DOMAIN trash'
                /\ \A t \in DOMAIN trash' : t \in DOMAIN trash /\ trash'[t] = trash[t]
          /\ (/\ call'.op = "restoreFromTrash"
              /\ call'.trashPath \in DOMAIN trash
              /\ call'.restoreTo \in {Some(NotePath), Some(NewPath)}
              /\ call'.restoreTo[1] \in DOMAIN fs
              /\ ~call'.overwrite) =>
                /\ result'.isError
                /\ fs' = fs
                /\ trash' = trash]_vars

\* the note was moved to the trash and restored to its path: the path holds
\* the text it held before, and the trash is empty again
C19_Witness ==
    /\ call.op = "restoreFromTrash"
    /\ result # Pending
    /\ ~result.isError
    /\ call.restoreTo = Some(NotePath)
    /\ call.trashPath[2] = "a.md"
    /\ ~call.overwrite
    /\ pc.n = 2
    /\ fs = InitialFiles
    /\ trash = <<>>

\* C20: createFile on a path that exists answers an error and leaves every
\* file as it was, and updateFile on a path that does not exist answers an
\* error and leaves the path without a file.
C20_CreateAndUpdateAreDisjoint ==
    [][Answered =>
          /\ (call'.op = "createFile" /\ Full(call'.path) \in DOMAIN fs) =>
                /\ result'.isError
                /\ result'.error = "File already exists"
                /\ fs' = fs
          /\ (call'.op = "updateFile" /\ Full(call'.path) \notin DOMAIN fs) =>
                /\ result'.isError
                /\ result'.error = "File does not exist"
                /\ fs' = fs]_vars

\* the note was deleted and an updateFile of its path was refused: the path
\* still has no file
C20_Witness ==
    /\ call.op = "updateFile"
    /\ result # Pending
    /\ call.path = NotePath
    /\ result.isError
    /\ result.error = "File does not exist"
    /\ NotePath \notin DOMAIN fs

\* ------------------------------------------------------------------ batch requests

WriteOperation(type, path, content, expectedEtag) ==
    [type |-> type, path |-> path, content |-> content, expectedEtag |-> expectedEtag]

\* create, update (without a fingerprint, with the right one, with a stale
\* one), append and delete, on the note that exists and on a path that does not
BatchOps ==
    UNION {
        {WriteOperation("create", path, <<"c">>, Null),
         WriteOperation("update", path, <<"u">>, Null),
         WriteOperation("update", path, <<"u">>, Some(generateEtag(NoteText))),
         WriteOperation("update", path, <<"u">>, Some(StaleEtag)),
         WriteOperation("append", path, <<"z">>, Null),
         WriteOperation("delete", path, <<>>, Null)} : path \in {NotePath, NewPath}}

BatchLists == UNION {[1..n -> BatchOps] : n \in 0..MaxOps}

BatchWrite ==
    /\ call.op = "batchWrite"
    /\ result = Pending
    /\ LET r == batchWrite(fs, call.operations, call.atomic)
       IN /\ fs' = r.fs
          /\ result' = r.res
    /\ UNCHANGED <<trash, now, call, known, pc, local>>

InitBatch ==
    /\ fs = InitialFiles
    /\ trash = <<>>
    /\ now = 0
    /\ call \in {[op |-> "batchWrite", operations |-> operations, atomic |-> atomic] :
                    operations \in BatchLists, atomic \in BOOLEAN}
    /\ result = Pending
    /\ known = <<>>
    /\ pc = "batch"
    /\ local = <<>>

SpecBatch == InitBatch /\ [][BatchWrite]_vars

\* C4 as claimed: an atomic batchWrite that answers with an error has created,
\* modified and deleted nothing, and one that answers with success has carried
\* out every operation of its list, also when the list names a path twice.
C4_AsClaimed ==
    (call.op = "batchWrite" /\ call.atomic /\ result # Pending) =>
        /\ result.isError => fs = InitialFiles
        /\ ~result.isError => /\ result.successCount = Len(call.operations)
                              /\ result.failureCount = 0

\* the files as they were when the last operation of an executed batch began:
\* the operations before it carried out on the files the batch found
BeforeLast ==
    BatchExecute([fs |-> InitialFiles, results |-> <<>>, successCount |-> 0,
                  failureCount |-> 0, error |-> Null],
                 SubSeq(call.operations, 1, Len(call.operations) - 1), 1, call.atomic).fs

\* the last operation of an executed batch is an update whose expectedEtag is
\* not the fingerprint the target had when the operation began
StaleLast ==
    /\ call.op = "batchWrite"
    /\ result # Pending
    /\ ~result.isError
    /\ call.operations # <<>>
    /\ LET last == call.operations[Len(call.operations)]
       IN /\ last.type = "update"
          /\ Truthy(last.expectedEtag)
          /\ Full(last.path) \in DOMAIN BeforeLast
          /\ generateEtag(BeforeLast[Full(last.path)]) # last.expectedEtag[1]

\* C26: an update of a batch whose expectedEtag differs from the fingerprint
\* of the target at the time the update is executed leaves the target as it
\* was, in atomic and in non-atomic mode, also when an earlier operation of the
\* batch changed the target.
C26_AsClaimed ==
    StaleLast =>
        LET path == Full(call.operations[Len(call.operations)].path)
        IN path \in DOMAIN fs /\ fs[path] = BeforeLast[path]

\* ------------------------------------------------------------------ claims on sections

\* the sections of a tree in pre-order (a section, then its children)
RECURSIVE Flatten(_)
Flatten(sections) ==
    IF sections = <<>> THEN <<>>
    ELSE <<[sections[1] EXCEPT !.children = <<>>]>>
         \o Flatten(sections[1].children) \o Flatten(Tail(sections))

Parsed == call.op = "parseSections" /\ "sections" \in DOMAIN result

RECURSIVE NestedOK(_)
NestedOK(sections) ==
    /\ \A k \in 1..(Len(sections) - 1) : sections[k].endLine < sections[k + 1].startLine
    /\ \A k \in 1..Len(sections) :
        /\ sections[k].startLine <= sections[k].endLine
        /\ \A c \in 1..Len(sections[k].children) :
            /\ sections[k].startLine < sections[k].children[c].startLine
            /\ sections[k].children[c].endLine <= sections[k].endLine
        /\ NestedOK(sections[k].children)

\* C7: in every tree parseSections returns, each child's range lies inside its
\* parent's range and after the parent's heading line, and the siblings of every
\* level, the root level included, are in document order with disjoint ranges.
C7_SectionContainment == Parsed => NestedOK(result.sections)

\* a tree in which a section has two children, the first with a child of its own
C7_Witness ==
    /\ Parsed
    /\ \E k \in 1..Len(result.sections) :
        /\ Len(result.sections[k].children) >= 2
        /\ Len(result.sections[k].children[1].children) >= 1

\* a fence delimiter as the claim words it: three or more backquotes or tildes
ClaimFence(line) ==
    \E c \in {BQ, "~"} : Len(line) >= 3 /\ \A i \in 1..3 : line[i] = c

\* a heading line as the claim words it: 1 to 6 '#', then whitespace
ClaimHeading(line) ==
    \E n \in 1..6 :
        /\ Len(line) > n
        /\ \A i \in 1..n : line[i] = "#"
        /\ line[n + 1] \in {" ", "\t", "\r", "\f"}

\* line i lies in a fenced block: it is a delimiter, or an odd number of
\* delimiters precede it in the content that starts at line first
ClaimInFence(lines, first, i) ==
    \/ ClaimFence(lines[i])
    \/ Cardinality({j \in first..(i - 1) : ClaimFence(lines[j])}) % 2 = 1

ClaimHeadingLines(lines, first) ==
    {i \in first..Len(lines) :
        /\ ~ClaimInFence(lines, first, i)
        /\ ~(lines[i] # <<>> /\ lines[i][1] = ">")
        /\ ClaimHeading(lines[i])}

ReportedHeadings(sections) ==
    {<<n.startLine, n.heading>> : n \in {Flatten(sections)[k] : k \in 1..Len(Flatten(sections))}}
    \ {<<i, Null>> : i \in 0..(MaxLines + 1)}

\* C8: the headings parseSections reports are exactly the lines after the
\* frontmatter that are 1 to 6 '#' followed by whitespace, lie in no fenced
\* code block (delimiters included) and do not start with '>'.
C8_HeadingDetection ==
    Parsed =>
        LET lines == SplitLines(call.content)
            first == IF result.frontmatter = Null THEN 1
                     ELSE result.frontmatter[1].endLine + 1
        IN ReportedHeadings(result.sections)
           = {<<i, Some(lines[i])>> : i \in ClaimHeadingLines(lines, first)}

\* a heading-like line inside a fence is passed over and a later heading reported
C8_Witness ==
    /\ Parsed
    /\ LET lines == SplitLines(call.content)
       IN \E i \in 1..Len(lines) :
            /\ ClaimHeading(lines[i])
            /\ ClaimInFence(lines, 1, i)
            /\ \E k \in 1..Len(result.sections) : result.sections[k].startLine > i

\* C9: a heading=null, level=0 section is emitted exactly when the document has
\* a heading and the first heading is not on the first content line; it spans
\* from the first content line to the line before the first heading and is a
\* root entry, never a child; a document without headings yields no section.
C9_NullSection ==
    Parsed =>
        LET all == Flatten(result.sections)
            nulls == {k \in 1..Len(all) : all[k].heading = Null}
            heads == {k \in 1..Len(all) : all[k].heading # Null}
            first == IF result.frontmatter = Null THEN 1
                     ELSE result.frontmatter[1].endLine + 1
            firstHeading == Min({all[k].startLine : k \in heads})
        IN /\ heads = {} => result.sections = <<>>
           /\ nulls # {} <=> (heads # {} /\ firstHeading > first)
           /\ nulls # {} =>
                /\ nulls = {1}
                /\ result.sections[1].heading = Null
                /\ result.sections[1].level = 0
                /\ result.sections[1].startLine = first
                /\ result.sections[1].endLine = firstHeading - 1
                /\ result.sections[1].children = <<>>

\* a document with frontmatter, text and then a heading: the null section is
\* the first root entry and the heading follows it
C9_Witness ==
    /\ Parsed
    /\ result.frontmatter # Null
    /\ Len(result.sections) >= 2
    /\ result.sections[1].heading = Null

\* the heading sections of a tree with the start line of the section each one
\* is a child of (0 for a root entry)
RECURSIVE ParentLinks(_, _)
ParentLinks(sections, parentLine) ==
    UNION {{[line |-> sections[k].startLine, level |-> sections[k].level,
             parent |-> parentLine]}
           \cup ParentLinks(sections[k].children, sections[k].startLine)
           : k \in 1..Len(sections)}

\* C10: the parent of each heading section is the nearest preceding heading of
\* strictly smaller level, a heading without one is a root entry, and a
\* pre-order walk of the tree lists the sections in document order.
C10_NearestSmallerParent ==
    Parsed =>
        LET links == {l \in ParentLinks(result.sections, 0) : l.level > 0}
            all == Flatten(result.sections)
        IN /\ \A l \in links :
                LET before == {g \in links : g.line < l.line /\ g.level < l.level}
                IN l.parent = IF before = {} THEN 0
                              ELSE CHOOSE m \in {g.line : g \in before} :
                                     \A g \in before : g.line <= m
           /\ \A k \in 1..(Len(all) - 1) : all[k].startLine < all[k + 1].startLine

\* a heading whose parent is not the heading just before it: a deeper heading
\* lies between the two
C10_Witness ==
    /\ Parsed
    /\ LET links == {l \in ParentLinks(result.sections, 0) : l.level > 0}
       IN \E l \in links :
            /\ l.parent # 0
            /\ \E g \in links : l.parent < g.line /\ g.line < l.line

\* ------------------------------------------------------------------ claims on reading a section

\* the sections of the read document, at every depth, whose heading line is h
Matches(content, h) ==
    LET flat == Flatten(parseSections(content).sections)
    IN {flat[k] : k \in {j \in 1..Len(flat) : flat[j].heading = Some(h)}}

\* a readSection request for a heading (not the frontmatter) has been answered
SectionRead == call.op = "readSection" /\ result # Pending /\ call.heading # FRONTMATTER

\* C11: readSection for a heading line h answers with the section of smallest
\* startLine among the sections of every depth whose heading line is exactly h
\* (its range starts at that line, or one below without the heading, and with
\* the children it ends at that section's endLine); when no section has the
\* heading the answer is an error result that carries the suggestion to use
\* get_sections, not a thrown error.
C11_FirstMatch ==
    SectionRead =>
        LET found == Matches(call.content, call.heading)
            first == CHOOSE s \in found : \A t \in found : s.startLine <= t.startLine
            nLines == Len(SplitLines(call.content))
        IN IF found = {}
           THEN /\ result.isError
                /\ "suggestion" \in DOMAIN result
                /\ result.suggestion = "Use get_sections to see available headings in this file."
           ELSE /\ ~result.isError
                /\ result.startLine = first.startLine + (IF call.includeHeading THEN 0 ELSE 1)
                /\ call.includeChildren => result.endLine = Min2(first.endLine, nLines)
                /\ call.includeHeading =>
                       SplitLines(result.content)[1] = call.heading

\* a document with the heading twice, at the root and then below another
\* heading, read by its heading: the answer starts at the first line
C11_Witness ==
    /\ SectionRead
    /\ Cardinality(Matches(call.content, call.heading)) = 2
    /\ \E s \in Matches(call.content, call.heading) : s.level = 2
    /\ Len(parseSections(call.content).sections) = 2
    /\ ~result.isError
    /\ result.startLine = 1

\* the sections of a tree at every depth, each with its children
RECURSIVE Nested(_)
Nested(sections) ==
    IF sections = <<>> THEN {}
    ELSE {sections[1]} \cup Nested(sections[1].children) \cup Nested(Tail(sections))

\* the section a readSection request was answered with: the first, by its
\* line, whose heading line is the requested one
SectionFound ==
    LET found == {s \in Nested(parseSections(call.content).sections) :
                     s.heading = Some(call.heading)}
    IN CHOOSE s \in found : \A t \in found : s.startLine <= t.startLine

\* C24: the range readSection returns starts at the section's startLine, one
\* line later without the heading, and ends at the section's endLine, or right
\* before the first child without the children; startLine and endLine both lie
\* in 1..totalLines, and lineCount is endLine - startLine + 1 and not negative.
C24_AsClaimed ==
    (SectionRead /\ ~result.isError) =>
        LET totalLines == parseSections(call.content).totalLines
        IN /\ result.startLine = SectionFound.startLine + (IF call.includeHeading THEN 0 ELSE 1)
           /\ result.endLine = IF ~call.includeChildren /\ SectionFound.children # <<>>
                               THEN SectionFound.children[1].startLine - 1
                               ELSE SectionFound.endLine
           /\ result.startLine \in 1..totalLines
           /\ result.endLine \in 1..totalLines
           /\ result.lineCount = result.endLine - result.startLine + 1
           /\ result.lineCount >= 0

\* ------------------------------------------------------------------ frontmatter round trip

\* serializeYaml of the mapping of the request, and parseYaml of that text
RoundTrip ==
    /\ call.op = "roundTrip"
    /\ result = Pending
    /\ result' = [yaml |-> serializeYaml(call.m, 0),
                   parsed |-> parseYaml(serializeYaml(call.m, 0))]
    /\ UNCHANGED <<fs, trash, now, call, known, pc, local>>

\* the requests: every mapping of at most two keys whose values are strings
\* (plain, empty, with a colon, spelling a boolean or a number), numbers,
\* booleans, null, lists of at most MaxItems of these, a nested mapping and a
\* list of one mapping
InitYaml ==
    LET scalars == {YamlValue("string", <<"x">>, <<>>),
                    YamlValue("string", <<>>, <<>>),
                    YamlValue("string", <<"a", ":", "b">>, <<>>),
                    YamlValue("string", <<"t", "r", "u", "e">>, <<>>),
                    YamlValue("string", <<"7">>, <<>>),
                    YamlValue("number", <<"7">>, <<>>),
                    YamlValue("number", <<"-", "2", ".", "5">>, <<>>),
                    YamlValue("boolean", <<"t", "r", "u", "e">>, <<>>),
                    YamlValue("null", <<"n", "u", "l", "l">>, <<>>)}
        items == {YamlValue("string", <<"x">>, <<>>),
                  YamlValue("string", <<"a", ",", "b">>, <<>>),
                  YamlValue("number", <<"7">>, <<>>),
                  YamlValue("boolean", <<"f", "a", "l", "s", "e">>, <<>>)}
        lists == {YamlValue("array", <<>>, l) : l \in UNION {[1..n -> items] : n \in 0..MaxItems}}
        nested == YamlValue("object", <<>>,
                            <<YamlValue("entry", <<"c">>, <<YamlValue("number", <<"7">>, <<>>)>>)>>)
        values == scalars \cup lists
                  \cup {nested, YamlValue("array", <<>>, <<nested>>),
                        YamlValue("array", <<>>, <<YamlValue("null", <<"n", "u", "l", "l">>, <<>>)>>)}
    IN /\ fs = <<>>
       /\ trash = <<>>
       /\ now = 0
       /\ call \in {[op |-> "roundTrip", m |-> m] :
                       m \in {<<>>} \cup {<<<<<<"a">>, v>>>> : v \in values}
                            \cup {<<<<<<"a">>, v>>, <<<<"b">>, w>>>> : v \in values, w \in values}}
       /\ result = Pending
       /\ known = <<>>
       /\ pc = "yaml"
       /\ local = <<>>

SpecYaml == InitYaml /\ [][RoundTrip]_vars

\* C12: for every mapping built from the supported value shapes, parsing the
\* text serializeYaml produces for it yields the mapping again:
\* parseYaml(serializeYaml(m)) = m.
C12_AsClaimed == (call.op = "roundTrip" /\ result # Pending) => result.parsed = call.m

\* ------------------------------------------------------------------ tag search

\* a searchByTag request on the vault that holds the note of the request
SearchByTag ==
    /\ call.op = "searchByTag"
    /\ result = Pending
    /\ result' = searchByTag(fs, call.tags, call.match, call.location).res
    /\ UNCHANGED <<fs, trash, now, call, known, pc, local>>

\* the requests: a note with no frontmatter tags, a list of at most MaxItems
\* tags or a single-line tag, and with or without a tag in its body; searched
\* for one or two tags, with and without "#", in every mode
SpecTags ==
    /\ LET project == <<"p", "r", "o", "j", "e", "c", "t">>
           docTags == {project, project \o <<"/", "f", "e">>, project \o <<"x">>,
                       <<"P">> \o Tail(project)}
           ruler == DASHES \o <<NL>>
           key == <<"t", "a", "g", "s", ":", " ">>
           frontmatters ==
               {<<>>}
               \cup {ruler \o key \o t \o <<NL>> \o ruler : t \in docTags}
               \cup {ruler \o key \o <<"[">> \o JoinWith(l, <<",", " ">>) \o <<"]", NL>> \o ruler :
                        l \in UNION {[1..n -> docTags] : n \in 1..MaxItems}}
           bodies == {<<"x">>} \cup {<<"s", "e", "e", " ", "#">> \o t \o <<".">> : t \in docTags}
       IN /\ fs \in {[q \in {NotePath, ObsidianPath} |->
                         IF q = NotePath THEN f \o b ELSE <<"#">> \o project] :
                      f \in frontmatters, b \in bodies}
          /\ call \in {[op |-> "searchByTag", tags |-> tags, match |-> match,
                         location |-> location] :
                           tags \in {<<project>>, <<<<"#", "P">> \o Tail(project)>>,
                                     <<project \o <<"x">>>>, <<project, project \o <<"x">>>>},
                           match \in {"any", "all"},
                           location \in {"frontmatter", "body", "both"}}
    /\ trash = <<>>
    /\ now = 0
    /\ result = Pending
    /\ known = <<>>
    /\ pc = "tags"
    /\ local = <<>>
    /\ [][SearchByTag]_vars

\* the tags of the note of the request in the places the request looks at
NoteTags ==
    LET lines == SplitLines(fs[NotePath])
        fmLines == IF TagFrontmatterMatch(fs[NotePath]) = Null THEN 0 ELSE 3
    IN (IF call.location = "body" THEN {}
        ELSE {extractFrontmatterTags(fs[NotePath])[i] :
                i \in 1..Len(extractFrontmatterTags(fs[NotePath]))})
       \cup (IF call.location = "frontmatter" THEN {}
            ELSE UNION {{InlineTags(lines[k], 1)[i] : i \in 1..Len(InlineTags(lines[k], 1))} :
                          k \in (fmLines + 1)..Len(lines)})

\* the claim's rule: without regard to letter case, Y is X, or Y is X, a "/"
\* and more; a "#" before the search tag is not part of it
ClaimTagMatch(Y, X) ==
    LET x == ToLowerCase(IF StartsWith(X, <<"#">>) THEN Tail(X) ELSE X)
        y == ToLowerCase(Y)
    IN /\ Len(y) >= Len(x)
       /\ SubSeq(y, 1, Len(x)) = x
       /\ Len(y) > Len(x) => y[Len(x) + 1] = "/"

\* C18: searchByTag matches a tag Y of a document to a search tag X exactly
\* when, letter case aside, Y equals X or Y starts with X followed by "/": the
\* matchedTags of the note are its tags that match some search tag, and the
\* note is returned exactly when some tag matches (match = any) or every
\* search tag is matched by some tag (match = all).  So a note tagged
\* project/fe is returned for a search for project, and a note whose only tag
\* is projectx is not.
C18_TagMatching ==
    (call.op = "searchByTag" /\ result # Pending) =>
        LET searched == {call.tags[i] : i \in 1..Len(call.tags)}
            matching == {Y \in NoteTags : \E X \in searched : ClaimTagMatch(Y, X)}
            returned == result.totalMatches = 1
        IN /\ ~result.isError
           /\ result.totalMatches = Len(result.results)
           /\ returned <=> IF call.match = "any" THEN matching # {}
                            ELSE \A X \in searched : \E Y \in NoteTags : ClaimTagMatch(Y, X)
           /\ returned =>
                 {result.results[1].matchedTags[i] :
                    i \in 1..Len(result.results[1].matchedTags)} = matching

\* a note tagged project/fe in its frontmatter and projectx in its body,
\* searched for project: returned, with project/fe as its one matched tag
C18_Witness ==
    /\ call.op = "searchByTag"
    /\ result # Pending
    /\ call.tags = <<<<"p", "r", "o", "j", "e", "c", "t">>>>
    /\ call.location = "both"
    /\ NoteTags = {<<"p", "r", "o", "j", "e", "c", "t", "/", "f", "e">>,
                   <<"p", "r", "o", "j", "e", "c", "t", "x">>}
    /\ result.totalMatches = 1
    /\ result.results[1].matchedTags = <<<<"p", "r", "o", "j", "e", "c", "t", "/", "f", "e">>>>

\* ------------------------------------------------------------------ path confinement

\* the segments request paths are made of
PathSegments == {"vault", "work", "srv", "a", "", ".", "..", "..x"}

\* one call of resolvePath
ResolvePath ==
    /\ call.op = "resolvePath"
    /\ result = Pending
    /\ result' = resolvePath(call.path)
    /\ UNCHANGED <<fs, trash, now, call, known, pc, local>>

SpecPaths ==
    /\ fs = [q \in {NotePath} |-> <<>>]
    /\ trash = [q \in {} |-> <<>>]
    /\ now = 0
    /\ call \in {[op |-> "resolvePath", path |-> p] :
                    p \in UNION {[1..n -> PathSegments] : n \in 0..MaxSegments}}
    /\ result = Pending
    /\ known = [q \in {} |-> <<>>]
    /\ pc = [at |-> "idle", n |-> 0]
    /\ local = <<>>
    /\ [][ResolvePath]_vars

\* the directory the operating system reaches from the vault's base directory
\* by following the segments one by one
RECURSIVE Follow(_, _)
Follow(dir, segments) ==
    IF segments = <<>> THEN dir
    ELSE IF segments[1] \in {"", "."} THEN Follow(dir, Tail(segments))
    ELSE IF segments[1] = ".." THEN Follow(SubSeq(dir, 1, Len(dir) - 1), Tail(segments))
    ELSE Follow(Append(dir, segments[1]), Tail(segments))

\* C21: resolvePath either throws one of its two errors or returns a fullPath
\* that is the base directory of the vault the request names, a configured
\* one, or lies beneath it, with no ".." left in it, and that is the place
\* the request's segments lead to.
C21_Confinement ==
    (call.op = "resolvePath" /\ result # Pending) =>
        \/ result.error \in {"Invalid vault name", "Path traversal not allowed"}
        \/ /\ result.error = ""
           /\ call.path # <<>>
           /\ call.path[1] \in VaultNames
           /\ result.vaultName = call.path[1]
           /\ result.fullPath[1] = call.path[1]
           /\ \A i \in 2..Len(result.fullPath) : result.fullPath[i] \notin {"..", ".", ""}
           /\ LET base == BasePath(call.path[1])
                  reached == IF /\ Len(call.path) >= 2 /\ call.path[2] = ""
                                /\ \E i \in 3..Len(call.path) : call.path[i] # ""
                             THEN Follow(<<>>, Tail(call.path))
                             ELSE Follow(base, Tail(call.path))
              IN /\ StartsWith(reached, base)
                 /\ reached = base \o Tail(result.fullPath)

\* a request with ".." in it was answered with a path beneath the vault's base
C21_Witness ==
    /\ call.op = "resolvePath"
    /\ result # Pending
    /\ result.error = ""
    /\ \E i \in 1..Len(call.path) : call.path[i] = ".."
    /\ Len(result.fullPath) >= 2

\* ------------------------------------------------------------------ link requests

\* the note the links of the model are about, in a folder of the vault
TargetPath == <<"vault", "s", "c.md">>

\* a note of the second vault
WorkPath == <<"work", "w.md">>

\* the lines the linking note is made of: links to the target by name and by
\* path, with heading and alias parts, links to something else, plain text
LinkTokens ==
    LET link(body) == <<"[", "[">> \o body \o <<"]", "]">>
    IN {link(<<"c">>), link(<<"c", "|", "x">>), link(<<"c", "#", "h">>),
        link(<<"c", "#", "h", "|", "x">>), link(<<"c", "|", "#", "x">>),
        link(<<"C">>), link(<<"s", "/", "c">>), link(<<"s", "/", "c", "#", "h", "|", "x">>),
        link(<<"vault", "/", "s", "/", "c">>), link(<<"vault">>), link(<<"b">>),
        link(<<"c">>) \o <<" ">> \o link(<<"c">>), <<"x">>}

\* move
MoveFile ==
    /\ call.op = "moveFile"
    /\ result = Pending
    /\ \E r \in {moveFile(fs, call.source, call.destination, call.updateLinks, call.overwrite)} :
          fs' = r.fs /\ result' = r.res
    /\ UNCHANGED <<trash, now, call, known, pc, local>>

\* rename
RenameFile ==
    /\ call.op = "renameFile"
    /\ result = Pending
    /\ \E r \in {renameFile(fs, call.path, call.newName, call.updateLinks)} :
          fs' = r.fs /\ result' = r.res
    /\ UNCHANGED <<trash, now, call, known, pc, local>>

\* get_backlinks
GetBacklinks ==
    /\ call.op = "getBacklinks"
    /\ result = Pending
    /\ \E r \in {getBacklinks(fs, call.path)} : fs' = r.fs /\ result' = r.res
    /\ UNCHANGED <<trash, now, call, known, pc, local>>

\* One request on a vault of four notes: the target, which links to itself,
\* the note with one link, the linking note of up to MaxTokens lines, and a
\* note of the second vault with two links.
SpecLinks ==
    /\ \E lines \in UNION {[1..n -> LinkTokens] : n \in 0..MaxTokens} :
          fs = [q \in {TargetPath, NotePath, NewPath, WorkPath} |->
                   IF q = NewPath THEN JoinLines(lines)
                   ELSE IF q = WorkPath
                   THEN <<"[", "[", "c", "]", "]", NL, "[", "[", "c", "|", "x", "]", "]">>
                   ELSE <<"[", "[", "c", "]", "]">>]
    /\ trash = [q \in {} |-> <<>>]
    /\ now = 0
    /\ call \in
          {[op |-> "moveFile", source |-> TargetPath, destination |-> d,
            updateLinks |-> u, overwrite |-> o] :
              d \in {<<"vault", "b.md">>, <<"vault", "s", "b.md">>, <<"work", "b.md">>,
                     NewPath, <<"vault", "q", "b.md">>},
              u \in BOOLEAN, o \in BOOLEAN}
          \cup {[op |-> "moveFile", source |-> <<"vault", "z.md">>,
                 destination |-> <<"vault", "b.md">>, updateLinks |-> TRUE,
                 overwrite |-> FALSE]}
          \cup {[op |-> "renameFile", path |-> p, newName |-> "b.md", updateLinks |-> u] :
                  p \in {TargetPath, <<"vault", "z.md">>}, u \in BOOLEAN}
          \cup {[op |-> "getBacklinks", path |-> p] :
                  p \in {TargetPath, NewPath, WorkPath, <<"vault">>, <<"nov", "c.md">>}}
    /\ result = Pending
    /\ known = [q \in {} |-> <<>>]
    /\ pc = [at |-> "idle", n |-> 0]
    /\ local = <<>>
    /\ [][MoveFile \/ RenameFile \/ GetBacklinks]_vars

\* ------------------------------------------------------------------ claims on links

\* a move or rename that updates links has just succeeded
MoveServed ==
    /\ call.op \in {"moveFile", "renameFile"}
    /\ result = Pending
    /\ result' # Pending
    /\ ~result'.isError
    /\ call.updateLinks

\* the source and the destination of the request
MoveSource == IF call.op = "moveFile" THEN call.source ELSE call.path

MoveDestination ==
    IF call.op = "moveFile" THEN call.destination
    ELSE SubSeq(call.path, 1, Len(call.path) - 1) \o <<call.newName>>

\* a word as the claim has it after the move: a wikilink whose target, the
\* text before the first "#" or "|", is the bare name or the vault-relative
\* path of the source names the destination instead and keeps its "#" part and
\* its "|" part; every other word stays
ClaimLink(word, source, destination) ==
    LET inner == SubSeq(word, 3, Len(word) - 2)
        pipe == IndexOf(inner, <<"|">>)
        linkPart == IF pipe = 0 THEN inner ELSE SubSeq(inner, 1, pipe - 1)
        aliasPart == IF pipe = 0 THEN <<>> ELSE SubSeq(inner, pipe, Len(inner))
        hash == IndexOf(linkPart, <<"#">>)
        target == IF hash = 0 THEN linkPart ELSE SubSeq(linkPart, 1, hash - 1)
        headingPart == IF hash = 0 THEN <<>> ELSE SubSeq(linkPart, hash, Len(linkPart))
    IN IF /\ StartsWith(word, <<"[", "[">>)
          /\ EndsWith(word, <<"]", "]">>)
          /\ Len(word) >= 4
          /\ target \in {BaseName(source), CleanText(source, 1)}
       THEN <<"[", "[">> \o CleanText(destination, 1) \o headingPart \o aliasPart
            \o <<"]", "]">>
       ELSE word

\* a document as the claim has it after the move
ClaimRewritten(content, source, destination) ==
    LET lines == SplitLines(content)
        words(i) == SplitOn(lines[i], " ")
    IN JoinLines([i \in 1..Len(lines) |->
                    JoinWith([k \in 1..Len(words(i)) |->
                                 ClaimLink(words(i)[k], source, destination)], <<" ">>)])

\* C22: after a move or rename with updateLinks, every link of every markdown
\* file of every vault that named the source by its bare name or by its
\* vault-relative path names the destination and has the "#" and "|" parts it
\* had; nothing else in the files changed.
C22_AsClaimed ==
    [][MoveServed =>
        \A q \in DOMAIN fs' :
            fs'[q] = ClaimRewritten(IF q = Full(MoveDestination) THEN fs[Full(MoveSource)]
                                    ELSE fs[q],
                                    MoveSource, MoveDestination)]_vars

\* get_backlinks has answered with a list
BacklinksServed == call.op = "getBacklinks" /\ result # Pending /\ ~result.isError

\* the sum of the lengths of the match lists from the i-th source on
RECURSIVE MatchCount(_, _)
MatchCount(backlinks, i) ==
    IF i > Len(backlinks) THEN 0
    ELSE Len(backlinks[i].matches) + MatchCount(backlinks, i + 1)

\* C23: in every getBacklinks response the target is no source, every source
\* has at least one match, totalCount is the sum of the lengths of the match
\* lists, and the sources come with the number of their matches never rising.
C23_BacklinksShape ==
    BacklinksServed =>
        /\ \A i \in DOMAIN result.backlinks :
              /\ result.backlinks[i].file # Full(call.path)
              /\ Len(result.backlinks[i].matches) >= 1
        /\ result.totalCount = MatchCount(result.backlinks, 1)
        /\ \A i, j \in DOMAIN result.backlinks :
              i < j => Len(result.backlinks[i].matches) >= Len(result.backlinks[j].matches)

\* the target links to itself, and the answer lists three sources, the first
\* with more matches than the last
C23_Witness ==
    /\ BacklinksServed
    /\ call.path = TargetPath
    /\ Includes(fs[TargetPath], <<"[", "[", "c", "]", "]">>)
    /\ Len(result.backlinks) = 3
    /\ Len(result.backlinks[1].matches) > Len(result.backlinks[3].matches)

\* the wikilinks of a document: the places where "[[" stands
LinkCount(content) == Cardinality(Occurrences(content, <<"[", "[">>))

\* C29: no source has more matches than it has wikilinks, and totalCount never
\* exceeds the number of wikilinks in the scanned documents, the documents
\* other than the target.
C29_AsClaimed ==
    BacklinksServed =>
        /\ \A i \in DOMAIN result.backlinks :
              Len(result.backlinks[i].matches) <= LinkCount(fs[result.backlinks[i].file])
        /\ result.totalCount <=
              Cardinality(UNION {{<<q, k>> : k \in Occurrences(fs[q], <<"[", "[">>)} :
                                    q \in DOMAIN fs \ {Full(call.path)}})

\* ------------------------------------------------------------------ link anchors

\* resolve_wikilink on a link with an anchor
ResolveAnchor ==
    /\ call.op = "resolveWikilink"
    /\ result = Pending
    /\ result' = resolveWikilink(fs, call.link).res
    /\ UNCHANGED <<fs, trash, now, call, known, pc, local>>

\* One request on the vault of the server model: a link to the note, to the
\* settings file or to nothing, with one of the anchors, with or without an
\* alias, bare, in brackets or as an embed.
SpecAnchors ==
    /\ fs = [q \in {NotePath, ObsidianPath, <<"vault", "app.json">>} |-> <<"x">>]
    /\ trash = [q \in {} |-> <<>>]
    /\ now = 0
    /\ call \in {[op |-> "resolveWikilink", link |-> open \o target \o anchor \o alias \o close] :
                    target \in {<<"a">>, <<"z">>, <<"a", "p", "p", ".", "j", "s", "o", "n">>},
                    anchor \in {<<>>, <<"#", "h">>, <<"#", "h", "^", "b">>, <<"#", "^", "b">>,
                                <<"^", "b">>, <<"#", "h", "^">>, <<"#", "h", "^", "b", "^", "c">>},
                    alias \in {<<>>, <<"|", "t">>},
                    open \in {<<>>, <<"[", "[">>, <<"!", "[", "[">>},
                    close \in {<<>>, <<"]", "]">>}}
    /\ result = Pending
    /\ known = [q \in {} |-> <<>>]
    /\ pc = [at |-> "idle", n |-> 0]
    /\ local = <<>>
    /\ [][ResolveAnchor]_vars

\* the anchor of the requested link: the text after the first "#" and before
\* the "|", without the closing brackets; Null when the link has no "#"
Anchor ==
    LET closed == IF EndsWith(call.link, <<"]", "]">>)
                  THEN SubSeq(call.link, 1, Len(call.link) - 2) ELSE call.link
        pipe == IndexOf(closed, <<"|">>)
        linkPart == IF pipe = 0 THEN closed ELSE SubSeq(closed, 1, pipe - 1)
        hash == IndexOf(linkPart, <<"#">>)
    IN IF hash = 0 THEN Null ELSE Some(SubSeq(linkPart, hash + 1, Len(linkPart)))

\* C25: when the anchor of a link holds a "^", the answer's blockRef is the
\* text after the "^" and its heading the text before it, null when there is
\* none: note#heading^id gives heading and id, note#^id gives null and id.
C25_AsClaimed ==
    (call.op = "resolveWikilink" /\ result # Pending /\ Anchor # Null
     /\ Includes(Anchor[1], <<"^">>)) =>
        LET caret == IndexOf(Anchor[1], <<"^">>)
            before == SubSeq(Anchor[1], 1, caret - 1)
            after == SubSeq(Anchor[1], caret + 1, Len(Anchor[1]))
        IN /\ result.blockRef = Some(after)
           /\ result.heading = IF before = <<>> THEN Null ELSE Some(before)


\* ------------------------------------------------------------------ frontmatter requests

\* the lines of the documents whose frontmatter is asked for: the delimiter,
\* the delimiter before a carriage return, a mapping line and a line of text
FrontmatterLines ==
    { DASHES, DASHES \o <<"\r">>, <<"k", ":", " ", "1">>, <<"x">> }

\* a call of getFrontmatter on the note that holds the document of the request
GetFrontmatterOfNote ==
    /\ call.op = "getFrontmatter"
    /\ result = Pending
    /\ result' = getFrontmatter(fs, NotePath).res
    /\ UNCHANGED <<fs, trash, now, call, known, pc, local>>

\* a call of updateFrontmatter on the note that holds the document of the request
UpdateFrontmatterOfNote ==
    /\ call.op = "updateFrontmatter"
    /\ result = Pending
    /\ \E r \in {updateFrontmatter(fs, NotePath, call.updates, call.remove, Null)} :
        fs' = r.fs /\ result' = r.res
    /\ UNCHANGED <<trash, now, call, known, pc, local>>

\* every document of the bound is read by both detectors and updated
SpecFrontmatter ==
    /\ trash = <<>>
    /\ now = 0
    /\ \E ls \in UNION {[1..n -> FrontmatterLines] : n \in 1..MaxLines} :
        call \in {[op |-> "getFrontmatter", content |-> JoinLines(ls)],
                  [op |-> "readSection", content |-> JoinLines(ls), heading |-> FRONTMATTER,
                   includeChildren |-> TRUE, includeHeading |-> TRUE],
                  [op |-> "updateFrontmatter", content |-> JoinLines(ls),
                   updates |-> <<<<<<"k">>, YamlValue("number", <<"2">>, <<>>)>>>>,
                   remove |-> Null],
                  [op |-> "updateFrontmatter", content |-> JoinLines(ls),
                   updates |-> <<<<<<"t">>, YamlValue("string", <<"b">>, <<>>)>>>>,
                   remove |-> Some(<<<<"k">>>>)]}
    /\ fs = [q \in {NotePath} |-> call.content]
    /\ result = Pending
    /\ known = <<>>
    /\ pc = "parse"
    /\ local = <<>>
    /\ [][GetFrontmatterOfNote \/ ReadSectionOfNote \/ UpdateFrontmatterOfNote]_vars

\* ------------------------------------------------------------------ claims on frontmatter

\* the text after the line that closes the leading block of a document, the
\* whole document when its first line is not '---' or no later line is
FollowingText(content) ==
    LET lines == SplitLines(content)
        block == DetectFrontmatter(lines)
    IN IF block = Null THEN content
       ELSE IF block[1].endLine = Len(lines) THEN <<>>
       ELSE JoinLines(SubSeq(lines, block[1].endLine + 1, Len(lines)))

FrontmatterUpdated ==
    call.op = "updateFrontmatter" /\ result # Pending /\ ~result.isError

\* C27: updateFrontmatter changes only the frontmatter block: the text that
\* followed the closing '---' line before the call follows the new block
\* unchanged after it, and a document without frontmatter follows the newly
\* created block whole
C27_AsClaimed ==
    FrontmatterUpdated =>
        /\ DetectFrontmatter(SplitLines(fs[NotePath])) # Null
        /\ FollowingText(fs[NotePath]) = FollowingText(call.content)

FrontmatterAsked == call.op = "getFrontmatter" /\ result # Pending

\* C28: the frontmatter detectors agree on every document: getFrontmatter
\* reports hasFrontmatter exactly when parseSections reports a frontmatter
\* block, both then delimit the same lines, and a document whose first line
\* is not exactly '---' has no frontmatter for either
C28_AsClaimed ==
    FrontmatterAsked =>
        LET lines == SplitLines(call.content)
            block == parseSections(call.content).frontmatter
        IN /\ result.hasFrontmatter <=> block # Null
           /\ result.hasFrontmatter =>
                result.raw = Some(JoinLines(SubSeq(lines, 2, block[1].endLine - 1)))
           /\ lines[1] # DASHES => ~result.hasFrontmatter


\* ------------------------------------------------------------------ claims on the trash

\* a step that answers a soft delete with success
SoftDeleted ==
    Answered /\ call'.op = "deleteFile" /\ ~call'.permanent /\ ~result'.isError

\* C30: soft deletes never destroy content: every soft delete puts the file's
\* content into the trash under an entry of its own and leaves every entry the
\* trash already held as it was, also when a file of the same base name was
\* soft-deleted within the same clock millisecond
C30_AsClaimed ==
    [][SoftDeleted =>
          /\ result'.trashedTo \notin DOMAIN trash
          /\ trash'[result'.trashedTo] = fs[Full(call'.path)]
          /\ \A t \in DOMAIN trash : t \in DOMAIN trash' /\ trash'[t] = trash[t]]_vars

====
